---- MODULE Spec2Model ----
(***************************************************************************)
(* The cricket match simulation engine (src/match_engine.py) and the       *)
(* settlement layer that drives it (src/match_handlers.py simulate_match), *)
(* as a state machine.  One CricketMatch instance is simulated ball by     *)
(* ball; every random draw of the code is a nondeterministic choice.       *)
(***************************************************************************)
EXTENDS Integers, Sequences, FiniteSets, TLC

(***************************************************************************)
(* Bounds of the model.                                                    *)
(***************************************************************************)
\* total_overs ranges over 1..MaxOvers
MaxOvers == 2
\* number of players of the large roster (enough for a 10th wicket, and one more)
BigTeam == 12
\* calculate_chemistry is applied to rosters of 0..MaxSpecialists batsmen, as many
\* bowlers, 0..MaxAllRounders all-rounders and 0..MaxKeepers wicket-keepers
MaxSpecialists == 7
MaxAllRounders == 4
MaxKeepers == 3

(***************************************************************************)
(* Program constants.                                                      *)
(***************************************************************************)
BallsPerOver == 6
MaxWickets == 10
NoPosition == 999
MatchCost == 100
WinnerMin == 1000
WinnerMax == 1500
LoserMin == 500
LoserMax == 600
TieMin == 700
TieMax == 1000

\* Python's None where a number or a team is expected, and where a Player is
None == -1
NoPlayer == <<0, 0>>

(***************************************************************************)
(* Player and Team data.  A roster is the list Team.players; a player is   *)
(* identified by <<team, index in the roster>>.                            *)
(***************************************************************************)
Pl(name, role, position, batting_ovr, bowling_ovr) ==
    [name |-> name, role |-> role, position |-> position,
     batting_ovr |-> batting_ovr, bowling_ovr |-> bowling_ovr]

RosterEmpty == << >>
RosterOne == << Pl("a", "Bowler", 0, 20, 70) >>
RosterTwo == << Pl("a", "Bowler", 0, 20, 70), Pl("b", "Batsman", 0, 60, 10) >>
RosterTwoBat == << Pl("w", "Wicket-keeper", 0, 50, 0), Pl("b", "batsman", 0, 60, 10) >>
\* no Bowler and no All-rounder; the two batsmen share a name
RosterNoBowler == << Pl("k", "Wicket-keeper", 0, 50, 0), Pl("b", "Batsman", 0, 60, 10),
                     Pl("b", "Batsman", 2, 70, 10) >>
BigRoles == << "Batsman", "Bowler", "All-rounder", "Wicket-keeper" >>
BigNames == << "a", "b", "c", "d", "e", "f", "g", "h", "i", "j", "k", "l", "m", "n" >>
RosterBig == [i \in 1..BigTeam |->
                Pl(BigNames[((i - 1) % 14) + 1], BigRoles[((i - 1) % 4) + 1], 0, 40 + i, 60 - i)]

\* str.lower() on the role spellings that occur
Lower(s) ==
    CASE s \in {"Batsman", "BATSMAN", "batsman"} -> "batsman"
      [] s \in {"Bowler", "BOWLER", "bowler"} -> "bowler"
      [] s \in {"All-rounder", "ALL-ROUNDER", "all-rounder"} -> "all-rounder"
      [] s \in {"Wicket-keeper", "WICKET-KEEPER", "wicket-keeper"} -> "wicket-keeper"
      [] s \in {"Wicket keeper", "wicket keeper"} -> "wicket keeper"
      [] s \in {"Wicketkeeper", "wicketkeeper"} -> "wicketkeeper"
      [] s \in {"Keeper", "keeper"} -> "keeper"
      [] s \in {"Batter", "batter"} -> "batter"
      [] s \in {"All rounder", "all rounder"} -> "all rounder"
      [] s \in {"Allrounder", "allrounder"} -> "allrounder"
      [] s = "Bowler " -> "bowler "
      [] s = " Keeper" -> " keeper"
      [] OTHER -> s
\* str.strip() on the same spellings
Strip(s) ==
    CASE s = "bowler " -> "bowler"
      [] s = " keeper" -> "keeper"
      [] OTHER -> s

VARIABLES
    roster,                 \* Team.players of team 1 and team 2
    bookkeeping,            \* TRUE: the statistics below are followed; FALSE: they are
                            \* left out of the state and keep their reset values
    player_stats,           \* the match statistics of every Player
    current_partnership, partnership_balls,
    fall_of_wickets,        \* list of dictionaries
    over_start_runs,
    ball_event,             \* the last per-ball dictionary passed to send_message
    event_log,              \* the kinds of the events passed to send_message by the call of
                            \* simulate_match, in the order of the calls
    chemistry,              \* Team.chemistry, in hundredths
    chemistry_returned,     \* what calculate_chemistry last returned for the team, in hundredths
    total_overs,
    send_message_func,      \* TRUE: a callback is set, FALSE: None
    update_scorecard_func,
    match_end_func,
    driver,                 \* "module": match_engine.simulate_match, "handler": match_handlers.simulate_match
    team,                   \* team -> [score, wickets, overs, balls]
    is_out,                 \* Player.is_out
    current_innings,
    team1_score, team1_wickets, team1_overs, team1_balls,
    team2_score, team2_wickets, team2_overs, team2_balls,
    current_batsmen,        \* list of players; the first is on strike
    current_bowler,
    target_score,
    batting_team, bowling_team,
    pc,                     \* position of the engine
    over, ball,             \* the loop variables of _simulate_innings
    all_out, target_reached,
    target,                 \* the target parameter of _simulate_innings
    innings_balls,          \* number of simulate_ball calls of the current innings
    last_event,             \* "event" of the last dictionary passed to send_message
    scorecards,             \* TRUE once update_scorecard has been called
    end_calls,              \* number of calls of match_end
    end_arg,                \* the dictionary of the last call of match_end
    sim_result,             \* the dictionary simulate_match returned
    final_result,           \* the dictionary complete_match returned
    raised,                 \* TRUE once the engine has raised
    hpc,                    \* position of the settlement layer
    coins,                  \* net coin change of the two participants since before the wager
    active_matches,         \* TRUE while the match id is in the registry
    toss_winner, toss_choice,   \* the toss the settlement layer announced, where the
                                \* bookkeeping is followed
    sampling                \* the inputs and the results of one outcome draw of simulate_ball

engine_vars == << team, is_out, current_innings, team1_score, team1_wickets, team1_overs,
                  team1_balls, team2_score, team2_wickets, team2_overs, team2_balls,
                  current_batsmen, current_bowler, target_score, batting_team, bowling_team >>
loop_vars == << over, ball, all_out, target_reached, target, innings_balls >>
config_vars == << roster, total_overs, driver, chemistry, chemistry_returned, bookkeeping,
                 sampling >>
book_vars == << player_stats, current_partnership, partnership_balls, fall_of_wickets,
                over_start_runs, ball_event, event_log >>
callback_vars == << send_message_func, update_scorecard_func, match_end_func >>
observer_vars == << last_event, scorecards, end_calls, end_arg, sim_result, final_result, raised >>
toss_vars == << toss_winner, toss_choice >>
handler_vars == << hpc, coins, active_matches, toss_vars >>
vars == << config_vars, callback_vars, engine_vars, loop_vars, observer_vars, handler_vars,
           book_vars, pc >>

Teams == {1, 2}
Players(t) == { <<t, i>> : i \in 1..Len(roster[t]) }
AllPlayers == Players(1) \cup Players(2)
Attr(p) == roster[p[1]][p[2]]
PlayerList(t) == [i \in 1..Len(roster[t]) |-> <<t, i>>]

\* sorted(s, key=...): Python's sort is stable.  less holds the pairs <<i, j>> of
\* positions of s such that the key of s[i] is less than the key of s[j]
StableSort(s, less) ==
    LET n == Len(s)
        Before(j, i) == <<j, i>> \in less \/ (<<i, j>> \notin less /\ j < i)
        Rank(i) == 1 + Cardinality({j \in 1..n : j # i /\ Before(j, i)})
    IN  [r \in 1..n |-> s[CHOOSE i \in 1..n : Rank(i) = r]]

\* the sort key of get_batting_order, for the record a of a player
BattingKey(a) ==
    << IF a.position > 0 THEN a.position ELSE NoPosition,
       IF Lower(a.role) = "batsman" THEN 0
       ELSE IF Lower(a.role) = "all-rounder" THEN 1 ELSE 2,
       0 - a.batting_ovr >>
TupleLess(a, b) ==
    \/ a[1] < b[1]
    \/ a[1] = b[1] /\ a[2] < b[2]
    \/ a[1] = b[1] /\ a[2] = b[2] /\ a[3] < b[3]
IsBowlingRole(a) == Lower(a.role) \in {"bowler", "all-rounder", "all rounder"}

\* Team.get_batting_order and Team.get_bowling_order as roster indices
BattingOrderOf(ros) ==
    LET n == Len(ros)
    IN  StableSort([i \in 1..n |-> i],
                   { ij \in (1..n) \X (1..n) :
                       TupleLess(BattingKey(ros[ij[1]]), BattingKey(ros[ij[2]])) })
BowlingOrderOf(ros) ==
    LET Bowls(i) == IsBowlingRole(ros[i])
        bowlers == SelectSeq([i \in 1..Len(ros) |-> i], Bowls)
        n == Len(bowlers)
    IN  StableSort(bowlers,
                   { ij \in (1..n) \X (1..n) :
                       ros[bowlers[ij[1]]].bowling_ovr > ros[bowlers[ij[2]]].bowling_ovr })

\* the rosters of the model, and their orders (computed once)
Rosters == { RosterEmpty, RosterOne, RosterTwo, RosterTwoBat, RosterNoBowler, RosterBig }
BattingOrders == [ros \in Rosters |-> BattingOrderOf(ros)]
BowlingOrders == [ros \in Rosters |-> BowlingOrderOf(ros)]

get_batting_order(t) ==
    LET order == BattingOrders[roster[t]] IN [k \in 1..Len(order) |-> <<t, order[k]>>]
get_bowling_order(t) ==
    LET order == BowlingOrders[roster[t]] IN [k \in 1..Len(order) |-> <<t, order[k]>>]

ZeroTeam == [score |-> 0, wickets |-> 0, overs |-> 0, balls |-> 0]
\* None where a name is expected
NoName == "None"
\* Player.reset_match_stats, lines 64-79, but for is_out (a variable of its own) and
\* strike_rate (a function of runs and balls_faced)
ZeroPlayer ==
    [runs |-> 0, balls_faced |-> 0, wickets |-> 0, balls_bowled |-> 0, runs_conceded |-> 0,
     out_method |-> NoName, bowler_who_dismissed |-> NoName, fielder_who_dismissed |-> NoName,
     fours |-> 0, sixes |-> 0, overs_bowled |-> 0, maidens |-> 0]
\* what the bookkeeping becomes where it is followed
Track(new, old) == IF bookkeeping THEN new ELSE old


\* a Python dict with no keys
EmptyDict == [k \in {} |-> 0]
\* no outcome draw is looked at
NoSampling == [stage |-> "none"]

BallResults ==
    { [event |-> "dot", runs |-> 0], [event |-> "runs", runs |-> 1],
      [event |-> "runs", runs |-> 2], [event |-> "runs", runs |-> 3],
      [event |-> "boundary_4", runs |-> 4], [event |-> "boundary_6", runs |-> 6],
      [event |-> "wicket", runs |-> 0] }

(***************************************************************************)
(* The inputs: two rosters, the format length and the callbacks.  The      *)
(* settlement layer always sets the three callbacks; the module-level      *)
(* entry point passes on whatever it is given.                             *)
(***************************************************************************)
SmallRosters == Rosters \ { RosterBig }
CanBat(ros) == Len(ros) >= 2
Input(a, b, n, d, s, u, e) ==
    [team1 |-> a, team2 |-> b, overs |-> n, driver |-> d,
     send_message |-> s, update_scorecard |-> u, match_end |-> e]
\* small rosters of which at most one can bat, over one over: every subset of the
\* callbacks, and the settlement layer
OneSided ==
    { Input(a, b, 1, "module", s, u, e) :
        a \in SmallRosters, b \in { RosterEmpty, RosterOne }, s \in BOOLEAN,
        u \in BOOLEAN, e \in BOOLEAN }
    \cup { Input(a, b, 1, "module", s, u, e) :
        a \in { RosterEmpty, RosterOne }, b \in SmallRosters, s \in BOOLEAN,
        u \in BOOLEAN, e \in BOOLEAN }
    \cup { Input(a, RosterOne, 1, "handler", TRUE, TRUE, TRUE) : a \in SmallRosters }
    \cup { Input(RosterOne, RosterNoBowler, 1, "handler", TRUE, TRUE, TRUE) }
\* two teams that both bat, over one over
TwoSided ==
    { Input(RosterTwo, RosterTwoBat, 1, "module", c, c, c) : c \in BOOLEAN }
    \cup { Input(RosterTwo, RosterTwoBat, 1, "handler", TRUE, TRUE, TRUE),
           Input(RosterTwoBat, RosterTwo, 1, "module", TRUE, TRUE, TRUE) }
\* a two-player team batting over 1..MaxOvers overs
Long ==
    { Input(RosterTwo, RosterOne, n, "module", c, c, c) : n \in 1..MaxOvers, c \in BOOLEAN }
\* the large roster batting in either innings, over 1..MaxOvers overs
Large ==
    { Input(RosterBig, RosterOne, n, "module", TRUE, TRUE, TRUE) : n \in 1..MaxOvers }
    \cup { Input(RosterOne, RosterBig, n, "module", TRUE, TRUE, TRUE) : n \in 1..MaxOvers }
Inputs == OneSided \cup TwoSided \cup Long \cup Large

(***************************************************************************)
(* The state after CricketMatch.__init__, which ends with                  *)
(* reset_match_stats.                                                      *)
(***************************************************************************)
Constructed(i, book) ==
    /\ roster = [t \in Teams |-> IF t = 1 THEN i.team1 ELSE i.team2]
    /\ bookkeeping = book
    /\ player_stats = [p \in AllPlayers |-> ZeroPlayer]
    /\ current_partnership = 0
    /\ partnership_balls = 0
    /\ fall_of_wickets = << >>
    /\ over_start_runs = 0
    /\ ball_event = EmptyDict
    /\ event_log = << >>
    /\ total_overs = i.overs
    /\ driver = i.driver
    /\ send_message_func = i.send_message
    /\ update_scorecard_func = i.update_scorecard
    /\ match_end_func = i.match_end
    /\ chemistry = [t \in Teams |-> 100]
    /\ chemistry_returned = [t \in Teams |-> None]
    /\ team = [t \in Teams |-> ZeroTeam]
    /\ is_out = [p \in AllPlayers |-> FALSE]
    /\ current_innings = 0
    /\ team1_score = 0 /\ team1_wickets = 0 /\ team1_overs = 0 /\ team1_balls = 0
    /\ team2_score = 0 /\ team2_wickets = 0 /\ team2_overs = 0 /\ team2_balls = 0
    /\ current_batsmen = << >>
    /\ current_bowler = NoPlayer
    /\ target_score = None
    /\ batting_team = None
    /\ bowling_team = None
    /\ pc = "constructed"
    /\ over = 0 /\ ball = 0
    /\ all_out = FALSE /\ target_reached = FALSE
    /\ target = None
    /\ innings_balls = 0
    /\ last_event = "none"
    /\ scorecards = FALSE
    /\ end_calls = 0
    /\ end_arg = EmptyDict
    /\ sim_result = EmptyDict
    /\ final_result = EmptyDict
    /\ raised = FALSE
    /\ hpc = IF driver = "handler" THEN "begin" ELSE "none"
    /\ coins = IF driver = "handler" THEN [u \in {"challenger", "opponent"} |-> 0 - MatchCost]
               ELSE [u \in {"challenger", "opponent"} |-> 0]
    /\ active_matches = (driver = "handler")
    /\ toss_winner = None /\ toss_choice = NoName

Init == sampling = NoSampling /\ \E i \in Inputs : Constructed(i, FALSE)

(***************************************************************************)
(* The guards in front of the callbacks: "if self.send_message_func:" ...  *)
(* Calling a callback that is None raises TypeError.                       *)
(***************************************************************************)
SendGuard == send_message_func
ScorecardGuard == update_scorecard_func
MatchEndGuard == match_end_func
SendRaises == SendGuard /\ ~send_message_func
ScorecardRaises == ScorecardGuard /\ ~update_scorecard_func
MatchEndRaises == MatchEndGuard /\ ~match_end_func
\* the event last delivered, after the events evs are sent in this order
Sent(evs) == IF SendGuard /\ send_message_func /\ evs # << >> THEN evs[Len(evs)] ELSE last_event
\* the event dictionaries simulate_ball returns, lines 519-616
BallEvents == {"dot", "runs", "boundary_4", "boundary_6", "wicket"}
EventKind(e) == IF e \in BallEvents THEN "ball" ELSE e
\* faulty variant: of the events of one ball only the last is passed on
Delivered_m(log, evs) ==
    IF SendGuard /\ send_message_func /\ evs # << >>
    THEN Track(Append(log, EventKind(evs[Len(evs)])), log)
    ELSE log
\* the events passed to send_message after the events evs are sent in this order
Delivered(log, evs) ==
    IF SendGuard /\ send_message_func
    THEN Track(log \o [i \in 1..Len(evs) |-> EventKind(evs[i])], log)
    ELSE log

(***************************************************************************)
(* CricketMatch.setup_innings                                              *)
(***************************************************************************)
SetupBatsmen(bat) ==
    LET batting_order == get_batting_order(bat)
    IN  IF Len(batting_order) >= 2 THEN SubSeq(batting_order, 1, 2) ELSE batting_order
\* faulty variant: the bowler is never seeded
SetupBowler_m(bowl) == NoPlayer
SetupBowler(bowl) ==
    LET bowling_order == get_bowling_order(bowl)
    IN  IF bowling_order # << >> THEN bowling_order[1] ELSE NoPlayer

\* the engine runs when called directly or once the settlement layer has called it
EngineRuns == ~raised /\ (driver = "module" \/ hpc = "sim")

(***************************************************************************)
(* CricketMatch.simulate_match up to the first call of _simulate_innings   *)
(***************************************************************************)
\* faulty variant: the statistics of the players are kept
ResetPlayerStats_m(stats) == stats

\* lines 273-274: Player.reset_match_stats for the players of both teams
ResetPlayerStats(stats) == [p \in DOMAIN stats |-> ZeroPlayer]

\* simulate_match is called on a new match, or again on a match whose earlier
\* call raised
Retry == bookkeeping /\ pc = "raised" /\ driver = "module"

SimulateMatch ==
    /\ (pc = "constructed" /\ EngineRuns) \/ Retry
    /\ team' = [t \in Teams |-> ZeroTeam]
    /\ is_out' = [p \in AllPlayers |-> FALSE]
    /\ player_stats' = ResetPlayerStats(player_stats)
    /\ current_partnership' = 0
    /\ partnership_balls' = 0
    /\ fall_of_wickets' = << >>
    /\ over_start_runs' = 0
    /\ team1_score' = 0 /\ team1_wickets' = 0 /\ team1_overs' = 0 /\ team1_balls' = 0
    /\ team2_score' = 0 /\ team2_wickets' = 0 /\ team2_overs' = 0 /\ team2_balls' = 0
    /\ target_score' = None
    /\ current_innings' = 1
    /\ batting_team' = 1
    /\ bowling_team' = 2
    /\ current_batsmen' = SetupBatsmen(1)
    /\ current_bowler' = SetupBowler(2)
    /\ last_event' = Sent(<< "match_start" >>)
    /\ event_log' = Delivered(<< >>, << "match_start" >>)
    /\ target' = None
    /\ raised' = SendRaises
    /\ pc' = IF SendRaises THEN "raised" ELSE "innings"
    \* nothing has been observed of this call yet
    /\ ball_event' = EmptyDict /\ scorecards' = FALSE
    /\ end_calls' = 0 /\ end_arg' = EmptyDict /\ sim_result' = EmptyDict
    /\ UNCHANGED << config_vars, callback_vars, over, ball, all_out, target_reached,
                    innings_balls, final_result, handler_vars >>


(***************************************************************************)
(* CricketMatch._simulate_innings, lines 951-977: the checks and the       *)
(* fallbacks before the over loop                                          *)
(***************************************************************************)
\* faulty variant: lines 957-960 left out
EnoughPlayers_m(bat, bowl) == TRUE

EnoughPlayers(bat, bowl) == Len(roster[bat]) >= 2 /\ Len(roster[bowl]) >= 1
IsBowlerExact(p) == Attr(p).role \in {"Bowler", "All-rounder"}
FallbackBowlers(bowl) ==
    LET bowlers == SelectSeq(PlayerList(bowl), IsBowlerExact)
    IN  IF bowlers = << >> THEN PlayerList(bowl) ELSE bowlers

InningsBegin ==
    /\ pc = "innings"
    /\ EngineRuns
    /\ LET invalid == batting_team = None \/ bowling_team = None
           short == ~invalid /\ ~EnoughPlayers(batting_team, bowling_team)
           need_batsmen == Len(current_batsmen) < 2
           need_bowler == current_bowler = NoPlayer
           \* players[0], players[1] and bowlers[0] raise IndexError on a short list
           index_error == \/ need_batsmen /\ Len(roster[batting_team]) < 2
                          \/ need_bowler /\ FallbackBowlers(bowling_team) = << >>
           returns == invalid \/ short
           fails == IF returns THEN SendRaises ELSE index_error \/ ScorecardRaises
       IN  /\ current_batsmen' =
                IF returns \/ index_error \/ ~need_batsmen THEN current_batsmen
                ELSE << <<batting_team, 1>>, <<batting_team, 2>> >>
           /\ current_bowler' =
                IF returns \/ index_error \/ ~need_bowler THEN current_bowler
                ELSE FallbackBowlers(bowling_team)[1]
           /\ last_event' = IF returns THEN Sent(<< "error" >>) ELSE last_event
           /\ event_log' = IF returns THEN Delivered(event_log, << "error" >>) ELSE event_log
           /\ scorecards' = (scorecards \/ (~returns /\ ~index_error /\ ScorecardGuard))
           /\ raised' = fails
           /\ pc' = IF fails THEN "raised"
                    ELSE IF returns \/ total_overs <= 0 THEN "innings_end"
                    ELSE "over_start"
    /\ over' = 0 /\ ball' = 0
    /\ all_out' = FALSE /\ target_reached' = FALSE
    /\ innings_balls' = 0
    /\ UNCHANGED << player_stats, current_partnership, partnership_balls, fall_of_wickets,
                    over_start_runs, ball_event,
                    config_vars, callback_vars, team, is_out, current_innings,
                    team1_score, team1_wickets, team1_overs, team1_balls,
                    team2_score, team2_wickets, team2_overs, team2_balls,
                    target_score, batting_team, bowling_team, target,
                    end_calls, end_arg, sim_result, final_result, handler_vars >>

(***************************************************************************)
(* The head of the over loop, lines 983-1009                               *)
(***************************************************************************)
\* faulty variant: the bowler of the over before is not left out
OtherBowlers_m(bowl) == PlayerList(bowl)
OtherBowlers(bowl) ==
    LET NotCurrent(p) == p # current_bowler
        Preferred(p) == IsBowlerExact(p) /\ NotCurrent(p)
        bowlers == SelectSeq(PlayerList(bowl), Preferred)
    IN  IF bowlers = << >> THEN SelectSeq(PlayerList(bowl), NotCurrent) ELSE bowlers

OverStart ==
    /\ pc = "over_start"
    /\ EngineRuns
    /\ team' = [team EXCEPT ![batting_team].overs = over]
    /\ LET bowlers == OtherBowlers(bowling_team)
       IN  IF bowlers # << >>
           THEN \E i \in 1..Len(bowlers) : current_bowler' = bowlers[i]
           ELSE current_bowler' = current_bowler
    /\ over_start_runs' = Track(player_stats[current_bowler'].runs_conceded, over_start_runs)
    /\ last_event' = Sent(<< "over_start" >>)
    /\ event_log' = Delivered(event_log, << "over_start" >>)
    /\ ball' = 0
    /\ raised' = SendRaises
    /\ pc' = IF SendRaises THEN "raised" ELSE "ball"
    /\ UNCHANGED << player_stats, current_partnership, partnership_balls, fall_of_wickets,
                    ball_event, config_vars, callback_vars, is_out, current_innings,
                    team1_score, team1_wickets, team1_overs, team1_balls,
                    team2_score, team2_wickets, team2_overs, team2_balls,
                    current_batsmen, target_score, batting_team, bowling_team,
                    over, all_out, target_reached, target, innings_balls,
                    scorecards, end_calls, end_arg, sim_result, final_result, handler_vars >>


(***************************************************************************)
(* One pass of the ball loop, lines 1012-1174: simulate_ball (lines        *)
(* 361-616) and what _simulate_innings does with its result                *)
(***************************************************************************)
\* faulty variants of the three tests below: a strict comparison at line 1098, a
\* strict comparison at line 1157, and line 1113 without "not in current_batsmen"
WicketsDone_m(w) == w > MaxWickets
TargetMet_m(tgt, score) == tgt # None /\ tgt # 0 /\ score > tgt
AvailableBatsmen_m(bat, out, crease) ==
    LET Free(p) == ~out[p] IN SelectSeq(get_batting_order(bat), Free)

\* line 1098
WicketsDone(w) == w >= MaxWickets
\* line 1157
TargetMet(tgt, score) == tgt # None /\ tgt # 0 /\ score >= tgt
\* lines 1112-1115
AvailableBatsmen(bat, out, crease) ==
    LET Free(p) == ~out[p] /\ \A i \in 1..Len(crease) : crease[i] # p
    IN  SelectSeq(get_batting_order(bat), Free)
\* faulty variant: the batsman at the other end is replaced
OutBatsmanIdx_m(crease, name) == 2

\* lines 1122-1126: the first of the current batsmen that has the name
OutBatsmanIdx(crease, name) ==
    CHOOSE i \in 1..Len(crease) :
        /\ Attr(crease[i]).name = name
        /\ \A j \in 1..(i - 1) : Attr(crease[j]).name # name

\* faulty variant: the batsmen cross on every scoring stroke that is not a boundary
SwapsStrike_m(r) == r.event = "runs"
\* lines 1050-1052
SwapsStrike(r) == r.event = "runs" /\ r.runs % 2 = 1

\* line 575
DismissalTypes == {"bowled", "caught", "lbw", "stumped", "caught_behind"}
\* lines 597-607: the name of the fielder of a catch or stumping, a player of the
\* bowling team other than the bowler, if there is one
FielderNames(dismissal_type) ==
    LET fielders == { p \in Players(bowling_team) : p # current_bowler }
    IN  IF dismissal_type \in {"caught", "caught_behind", "stumped"} /\ fielders # {}
        THEN { Attr(p).name : p \in fielders }
        ELSE { NoName }
\* the draws of a dismissal: << dismissal_type, fielder_name >>
Dismissals(r) ==
    IF bookkeeping /\ r.event = "wicket" /\ current_batsmen # << >> /\ current_bowler # NoPlayer
    THEN UNION { { << d, f >> : f \in FielderNames(d) } : d \in DismissalTypes }
    ELSE { << NoName, NoName >> }

\* what simulate_ball does to the statistics of the striker: add_ball (line 520),
\* add_runs (lines 541, 552, 563) and the dismissal (lines 589-607)
SimulatedBall(stats, striker, bowler, r, how) ==
    LET faced == [stats[striker] EXCEPT !.balls_faced = @ + 1]
        batted ==
            IF r.event \in {"runs", "boundary_4", "boundary_6"}
            THEN [faced EXCEPT !.runs = @ + r.runs,
                               !.fours = IF r.runs = 4 THEN @ + 1 ELSE @,
                               !.sixes = IF r.runs = 6 THEN @ + 1 ELSE @]
            ELSE IF r.event = "wicket"
            THEN [faced EXCEPT !.out_method = how[1],
                               !.bowler_who_dismissed = Attr(bowler).name,
                               !.fielder_who_dismissed = IF how[2] # NoName THEN how[2] ELSE @]
            ELSE faced
    IN  [stats EXCEPT ![striker] = batted]
\* faulty variant: the runs of the ball are not charged to the bowler
BowledBall_m(stats, bowler, r) ==
    [stats EXCEPT ![bowler].balls_bowled = @ + 1,
                  ![bowler].wickets = IF r.event = "wicket" THEN @ + 1 ELSE @]
\* what the ball loop does to the statistics of the bowler: lines 1033, 1062-1063,
\* 1073-1074 and 1082-1083
BowledBall(stats, bowler, r) ==
    [stats EXCEPT ![bowler].balls_bowled = @ + 1,
                  ![bowler].runs_conceded = @ + r.runs,
                  ![bowler].wickets = IF r.event = "wicket" THEN @ + 1 ELSE @]
\* "if target:" on line 1042
HasTarget(tgt) == tgt # None /\ tgt # 0
\* lines 1036-1047: the dictionary of the ball with the score fields added
BallEvent(r) ==
    [event |-> r.event,
     score |-> << team[batting_team].score, team[batting_team].wickets >>,
     overs |-> << over, ball >>]
    @@ (IF HasTarget(target)
        THEN [target |-> target,
              needed |-> target - team[batting_team].score,
              balls_left |-> (total_overs * BallsPerOver) - (over * BallsPerOver + ball + 1)]
        ELSE EmptyDict)
\* lines 1086-1095
FallOfWicket(score, wickets, striker, how) ==
    [score |-> score, wicket |-> wickets, overs |-> << over, ball >>,
     player_out |-> Attr(striker).name, bowler |-> Attr(current_bowler).name,
     dismissal_type |-> how[1],
     partnership |-> current_partnership, partnership_balls |-> partnership_balls + 1]

Ball(r) ==
    /\ pc = "ball"
    /\ EngineRuns
    /\ \E how \in Dismissals(r) :
       LET bt == batting_team
           error == current_batsmen = << >> \/ current_bowler = NoPlayer
           striker == current_batsmen[1]
           is_wicket == ~error /\ r.event = "wicket"
           out1 == IF is_wicket THEN [is_out EXCEPT ![striker] = TRUE] ELSE is_out
           score1 == IF error THEN team[bt].score ELSE team[bt].score + r.runs
           wickets1 == IF is_wicket THEN team[bt].wickets + 1 ELSE team[bt].wickets
           ten == is_wicket /\ WicketsDone(wickets1)
           available_batsmen == AvailableBatsmen(bt, out1, current_batsmen)
           none_left == is_wicket /\ ~ten /\ available_batsmen = << >>
           now_all_out == ten \/ none_left
           crease1 ==
               IF error THEN current_batsmen
               ELSE IF is_wicket /\ ~now_all_out
               THEN [current_batsmen EXCEPT
                        ![OutBatsmanIdx(current_batsmen, Attr(striker).name)] = available_batsmen[1]]
               ELSE IF SwapsStrike(r)
               THEN << current_batsmen[2], current_batsmen[1] >>
               ELSE current_batsmen
           reached == ~error /\ ~now_all_out /\ TargetMet(target, score1)
           events ==
               IF error THEN << "error" >>
               ELSE << r.event >>
                    \o (IF now_all_out THEN << "all_out" >>
                        ELSE IF is_wicket THEN << "new_batsman" >> ELSE << >>)
                    \o (IF reached THEN << "target_reached" >> ELSE << >>)
           stop == now_all_out \/ reached
           last == stop \/ ball + 1 >= BallsPerOver
           stats1 == BowledBall(SimulatedBall(player_stats, striker, current_bowler, r, how),
                                current_bowler, r)
       IN  /\ player_stats' = IF error THEN player_stats ELSE Track(stats1, player_stats)
           /\ ball_event' =
                IF ~error /\ SendGuard /\ send_message_func
                THEN Track(BallEvent(r), ball_event) ELSE ball_event
           /\ fall_of_wickets' =
                IF is_wicket
                THEN Track(Append(fall_of_wickets, FallOfWicket(score1, wickets1, striker, how)),
                           fall_of_wickets)
                ELSE fall_of_wickets
           /\ current_partnership' =
                IF error THEN current_partnership
                ELSE IF is_wicket /\ ~now_all_out THEN 0
                ELSE Track(current_partnership + r.runs, current_partnership)
           /\ partnership_balls' =
                IF error THEN partnership_balls
                ELSE IF is_wicket /\ ~now_all_out THEN 0
                ELSE Track(partnership_balls + 1, partnership_balls)
           /\ team' = [team EXCEPT ![bt].balls = over * BallsPerOver + ball,
                                   ![bt].score = score1,
                                   ![bt].wickets = wickets1]
           /\ is_out' = out1
           /\ current_batsmen' = crease1
           /\ all_out' = now_all_out
           /\ target_reached' = reached
           /\ innings_balls' = IF error THEN innings_balls ELSE innings_balls + 1
           /\ last_event' = Sent(events)
           /\ event_log' = Delivered(event_log, events)
           /\ ball' = IF last THEN ball ELSE ball + 1
           /\ raised' = SendRaises
           /\ pc' = IF SendRaises THEN "raised" ELSE IF last THEN "over_end" ELSE "ball"
    /\ UNCHANGED << over_start_runs, config_vars, callback_vars, current_innings,
                    team1_score, team1_wickets, team1_overs, team1_balls,
                    team2_score, team2_wickets, team2_overs, team2_balls,
                    current_bowler, target_score, batting_team, bowling_team,
                    over, target, scorecards, end_calls, end_arg, sim_result, final_result,
                    handler_vars >>

(***************************************************************************)
(* The tail of the over loop, lines 1176-1201                              *)
(***************************************************************************)
OverEnd ==
    /\ pc = "over_end"
    /\ EngineRuns
    /\ LET card == ScorecardGuard /\ ((over + 1) % 3 = 0 \/ (over + 1) % 2 = 0)
           fails == card /\ ScorecardRaises
           innings_over == all_out \/ target_reached
           \* lines 1177-1183
           over_runs == player_stats[current_bowler].runs_conceded - over_start_runs
           bowler_stats ==
               [player_stats[current_bowler] EXCEPT
                   !.overs_bowled = @ + 1,
                   !.maidens = IF over_runs = 0 THEN @ + 1 ELSE @]
       IN  /\ player_stats' =
                Track([player_stats EXCEPT ![current_bowler] = bowler_stats], player_stats)
           /\ scorecards' = (scorecards \/ card)
           /\ current_batsmen' =
                IF innings_over \/ fails THEN current_batsmen
                ELSE << current_batsmen[2], current_batsmen[1] >>
           /\ over' = IF innings_over \/ fails \/ over + 1 >= total_overs THEN over ELSE over + 1
           /\ raised' = fails
           /\ pc' = IF fails THEN "raised"
                    ELSE IF innings_over \/ over + 1 >= total_overs THEN "innings_end"
                    ELSE "over_start"
    /\ UNCHANGED << current_partnership, partnership_balls, fall_of_wickets, over_start_runs,
                    ball_event, event_log, config_vars, callback_vars, team, is_out, current_innings,
                    team1_score, team1_wickets, team1_overs, team1_balls,
                    team2_score, team2_wickets, team2_overs, team2_balls,
                    current_bowler, target_score, batting_team, bowling_team,
                    ball, all_out, target_reached, target, innings_balls,
                    last_event, end_calls, end_arg, sim_result, final_result, handler_vars >>

(***************************************************************************)
(* simulate_match between the innings, lines 891-926                       *)
(***************************************************************************)
\* faulty variant: the target without the + 1
TargetFor_m(score) == score

\* line 913
TargetFor(score) == score + 1

InningsBreak ==
    /\ pc = "innings_end"
    /\ current_innings = 1
    /\ EngineRuns
    /\ LET bt == batting_team
           score == IF bt # None THEN team[bt].score ELSE 0
       IN  /\ team1_score' = score
           /\ team1_wickets' = IF bt # None THEN team[bt].wickets ELSE 0
           /\ team1_overs' = IF bt # None THEN team[bt].overs ELSE 0
           /\ team1_balls' = IF bt # None THEN team[bt].balls ELSE 0
           /\ target_score' = TargetFor(score)
           /\ target' = TargetFor(score)
    /\ current_innings' = 2
    /\ batting_team' = 2
    /\ bowling_team' = 1
    /\ current_batsmen' = SetupBatsmen(2)
    /\ current_bowler' = SetupBowler(1)
    /\ last_event' = Sent(<< "innings_break", "innings_start" >>)
    /\ event_log' = Delivered(event_log, << "innings_break", "innings_start" >>)
    /\ raised' = SendRaises
    /\ pc' = IF SendRaises THEN "raised" ELSE "innings"
    /\ UNCHANGED << player_stats, current_partnership, partnership_balls, fall_of_wickets,
                    over_start_runs, ball_event, config_vars, callback_vars, team, is_out,
                    team2_score, team2_wickets, team2_overs, team2_balls,
                    over, ball, all_out, target_reached, innings_balls,
                    scorecards, end_calls, end_arg, sim_result, final_result, handler_vars >>


(***************************************************************************)
(* CricketMatch.get_match_result                                           *)
(***************************************************************************)
TeamName(t) == IF t = 1 THEN "T1" ELSE "T2"
OwnerId(t) == 100 + t
\* f"{overs}.{balls % 6}"
OversText(overs, balls) == << overs, balls % BallsPerOver >>

\* faulty variant: level scores counted as a win of team 1
ResultType_m(s1, s2) ==
    IF s1 >= s2 THEN "team1_win" ELSE "team2_win_wickets"

ResultType(s1, s2) ==
    IF s1 > s2 THEN "team1_win" ELSE IF s2 > s1 THEN "team2_win_wickets" ELSE "tie"
Margin(s1, s2, w2) ==
    IF s1 > s2 THEN s1 - s2 ELSE IF s2 > s1 THEN MaxWickets - w2 ELSE 0

\* the dictionary of get_match_result for the scores and wickets given
ResultDict(s1, w1, o1, s2, w2, o2) ==
    LET result_type == ResultType(s1, s2)
        winner == IF result_type = "team1_win" THEN 1
                  ELSE IF result_type = "team2_win_wickets" THEN 2 ELSE None
    IN  [winner |-> IF winner = None THEN "Tie" ELSE TeamName(winner),
         winner_id |-> winner,
         winner_owner_id |-> IF winner = None THEN None ELSE OwnerId(winner),
         margin_type |-> IF result_type = "team1_win" THEN "runs"
                         ELSE IF result_type = "team2_win_wickets" THEN "wickets" ELSE "tie",
         margin |-> Margin(s1, s2, w2),
         team1_score |-> s1, team1_wickets |-> w1,
         team1_overs |-> o1,
         team2_score |-> s2, team2_wickets |-> w2,
         team2_overs |-> o2,
         match_type |-> "friendly", match_id |-> None]

(***************************************************************************)
(* simulate_match after the 2nd innings, lines 928-942, and the return of  *)
(* the module-level simulate_match, lines 1318-1327                        *)
(***************************************************************************)
MatchResult ==
    /\ pc = "innings_end"
    /\ current_innings = 2
    /\ EngineRuns
    /\ LET bt == batting_team
       IN  /\ team2_score' = IF bt # None THEN team[bt].score ELSE 0
           /\ team2_wickets' = IF bt # None THEN team[bt].wickets ELSE 0
           /\ team2_overs' = IF bt # None THEN team[bt].overs ELSE 0
           /\ team2_balls' = IF bt # None THEN team[bt].balls ELSE 0
    /\ LET result_type == ResultType(team1_score, team2_score')
           result_dict == ResultDict(team1_score, team1_wickets,
                                     OversText(team1_overs, team1_balls),
                                     team2_score', team2_wickets',
                                     OversText(team2_overs', team2_balls'))
           tagged == [result_type |-> result_type] @@ result_dict
       IN  /\ sim_result' = IF MatchEndGuard THEN tagged ELSE result_dict
           /\ end_calls' = IF MatchEndGuard /\ match_end_func THEN end_calls + 1 ELSE end_calls
           /\ end_arg' = IF MatchEndGuard /\ match_end_func THEN tagged ELSE end_arg
    /\ raised' = MatchEndRaises
    /\ pc' = IF MatchEndRaises THEN "raised" ELSE "returned"
    /\ UNCHANGED << book_vars, config_vars, callback_vars, team, is_out, current_innings,
                    team1_score, team1_wickets, team1_overs, team1_balls,
                    current_batsmen, current_bowler, target_score, batting_team, bowling_team,
                    loop_vars, last_event, scorecards, final_result, handler_vars >>

(***************************************************************************)
(* CricketMatch.complete_match.  Its one caller is the settlement layer,   *)
(* once simulate_match has returned (src/match_handlers.py line 1256).     *)
(***************************************************************************)
\* faulty variants: a tie pays what a defeat pays; the two rewards of a decided
\* match change places
RewardsTieAsLoss_m(result_type, winner_coins, loser_coins, tie_coins) ==
    IF result_type = "team1_win"
    THEN [team1_reward |-> winner_coins, team2_reward |-> loser_coins]
    ELSE IF result_type \in {"team2_win_wickets", "team2_win_runs"}
    THEN [team1_reward |-> loser_coins, team2_reward |-> winner_coins]
    ELSE [team1_reward |-> loser_coins, team2_reward |-> loser_coins]
RewardsSwapped_m(result_type, winner_coins, loser_coins, tie_coins) ==
    IF result_type = "team1_win"
    THEN [team1_reward |-> loser_coins, team2_reward |-> winner_coins]
    ELSE IF result_type \in {"team2_win_wickets", "team2_win_runs"}
    THEN [team1_reward |-> winner_coins, team2_reward |-> loser_coins]
    ELSE [team1_reward |-> tie_coins, team2_reward |-> tie_coins]

Rewards(result_type, winner_coins, loser_coins, tie_coins) ==
    IF result_type = "team1_win"
    THEN [team1_reward |-> winner_coins, team2_reward |-> loser_coins]
    ELSE IF result_type \in {"team2_win_wickets", "team2_win_runs"}
    THEN [team1_reward |-> loser_coins, team2_reward |-> winner_coins]
    ELSE [team1_reward |-> tie_coins, team2_reward |-> tie_coins]

\* the three draws of random.randint, lines 838-840: the ends of the three ranges
RewardDraws ==
    { << WinnerMin, LoserMin, TieMin >>, << WinnerMax, LoserMax, TieMax >>,
      << WinnerMin, LoserMax, TieMax >> }

CompleteMatch ==
    /\ pc = "returned"
    /\ driver = "handler"
    /\ EngineRuns
    /\ \E draw \in RewardDraws :
          LET result_type == ResultType(team1_score, team2_score)
              result_dict ==
                  Rewards(result_type, draw[1], draw[2], draw[3])
                      @@ [result_type |-> result_type]
                      @@ ResultDict(team1_score, team1_wickets,
                                    OversText(team1_overs, team1_balls),
                                    team2_score, team2_wickets,
                                    OversText(team2_overs, team2_balls))
          IN  /\ final_result' = result_dict
              /\ end_calls' = IF MatchEndGuard /\ match_end_func THEN end_calls + 1 ELSE end_calls
              /\ end_arg' = IF MatchEndGuard /\ match_end_func THEN result_dict ELSE end_arg
    /\ raised' = MatchEndRaises
    /\ pc' = IF MatchEndRaises THEN "raised" ELSE "completed"
    /\ hpc' = IF driver = "handler" /\ ~MatchEndRaises THEN "credit1" ELSE hpc
    /\ UNCHANGED << book_vars, config_vars, callback_vars, engine_vars, loop_vars, last_event,
                    scorecards, sim_result, coins, active_matches, toss_vars >>


(***************************************************************************)
(* The settlement layer: simulate_match of src/match_handlers.py.  Both    *)
(* stakes were deducted before it is called (lines 485 and 699).           *)
(***************************************************************************)
Credit(u, amount) == [coins EXCEPT ![u] = @ + amount]

\* random.choice([0, 1]) and random.choice(['bat', 'bowl']), lines 1221-1222
TossWinners == {0, 1}
TossChoices == {"bat", "bowl"}
\* lines 1241-1248: the team the settlement layer determines to bat first
BattingFirst(w, c) == IF (w = 0 /\ c = "bat") \/ (w = 1 /\ c = "bowl") THEN 1 ELSE 2
\* lines 988-1253: install the wrappers, toss, and call CricketMatch.simulate_match
HandlerBegin ==
    /\ hpc = "begin"
    /\ send_message_func' = TRUE
    /\ update_scorecard_func' = TRUE
    \* lines 1221-1222
    /\ \E w \in TossWinners, c \in TossChoices :
          toss_winner' = Track(w, toss_winner) /\ toss_choice' = Track(c, toss_choice)
    /\ hpc' = "sim"
    /\ UNCHANGED << book_vars, config_vars, match_end_func, engine_vars, loop_vars, observer_vars,
                    coins, active_matches, pc >>

\* the participant credited first: lines 1291 and 1392
FirstCredit(result) ==
    IF result.result_type = "tie"
    THEN << "challenger", MatchCost + result.team1_reward >>
    ELSE IF result.result_type = "team1_win"
    THEN << "challenger", MatchCost + result.team1_reward >>
    ELSE << "opponent", MatchCost + result.team2_reward >>
\* faulty variant: the second credit goes to the participant credited first
SecondCredit_m(result) == << FirstCredit(result)[1], result.team2_reward >>
\* the participant credited second: lines 1292 and 1393
SecondCredit(result) ==
    IF result.result_type = "tie"
    THEN << "opponent", MatchCost + result.team2_reward >>
    ELSE IF result.result_type = "team1_win"
    THEN << "opponent", result.team2_reward >>
    ELSE << "challenger", result.team1_reward >>

HandlerCredit1 ==
    /\ hpc = "credit1"
    /\ coins' = Credit(FirstCredit(final_result)[1], FirstCredit(final_result)[2])
    /\ hpc' = "credit2"
    /\ UNCHANGED << book_vars, config_vars, callback_vars, engine_vars, loop_vars, observer_vars,
                    active_matches, toss_vars, pc >>

HandlerCredit2 ==
    /\ hpc = "credit2"
    /\ coins' = Credit(SecondCredit(final_result)[1], SecondCredit(final_result)[2])
    /\ hpc' = "stats"
    /\ UNCHANGED << book_vars, config_vars, callback_vars, engine_vars, loop_vars, observer_vars,
                    active_matches, toss_vars, pc >>

\* lines 1315-1367 and 1395-1473: the statistics and the result message
HandlerStats ==
    /\ hpc = "stats"
    /\ hpc' = "cleanup"
    /\ UNCHANGED << book_vars, config_vars, callback_vars, engine_vars, loop_vars, observer_vars,
                    coins, active_matches, toss_vars, pc >>

\* lines 1369-1373 and 1475-1477
HandlerCleanup ==
    /\ hpc = "cleanup"
    /\ active_matches' = FALSE
    /\ hpc' = "done"
    /\ UNCHANGED << book_vars, config_vars, callback_vars, engine_vars, loop_vars, observer_vars,
                    coins, toss_vars, pc >>

\* What can raise inside the try block: the preparation (lines 989-1249), the
\* engine, the match_end callback (bot.send_message, not wrapped) called by
\* simulate_match and by complete_match, update_user_coins (lines 1291-1292 and
\* 1392-1393), and the statistics (lines 1315-1367 and 1395-1451).  The wrappers
\* of send_message and update_scorecard catch what the transport raises.
CanRaise ==
    \/ hpc \in {"begin", "credit1", "credit2", "stats"}
    \/ hpc = "sim" /\ (raised \/ pc = "returned" \/ (pc = "innings_end" /\ current_innings = 2))

\* lines 1479-1499: the except block
HandlerExcept ==
    /\ CanRaise
    /\ coins' = [u \in DOMAIN coins |-> coins[u] + MatchCost]
    /\ active_matches' = FALSE
    /\ hpc' = "failed"
    /\ UNCHANGED << book_vars, config_vars, callback_vars, engine_vars, loop_vars, observer_vars,
                    toss_vars, pc >>

Next ==
    \/ SimulateMatch
    \/ InningsBegin
    \/ OverStart
    \/ \E r \in BallResults : Ball(r)
    \/ OverEnd
    \/ InningsBreak
    \/ MatchResult
    \/ CompleteMatch
    \/ HandlerBegin
    \/ HandlerCredit1
    \/ HandlerCredit2
    \/ HandlerStats
    \/ HandlerCleanup
    \/ HandlerExcept

Spec == Init /\ [][Next]_vars

(***************************************************************************)
(* The engine on its own: the module-level simulate_match, which           *)
(* constructs the match and calls CricketMatch.simulate_match (lines       *)
(* 1302-1327).  The loops of the engine are fair: a step that can be taken *)
(* is taken.                                                               *)
(***************************************************************************)
\* the rosters of up to three players, which include the empty team, the one-player
\* team and the team without a bowler
EngineInputs == { i \in OneSided \cup TwoSided \cup Long : i.driver = "module" }
EngineInit == sampling = NoSampling /\ \E i \in EngineInputs : Constructed(i, FALSE)
EngineNext ==
    \/ SimulateMatch
    \/ InningsBegin
    \/ OverStart
    \/ \E r \in BallResults : Ball(r)
    \/ OverEnd
    \/ InningsBreak
    \/ MatchResult
EngineSpec == EngineInit /\ [][EngineNext]_vars /\ WF_vars(EngineNext)

(***************************************************************************)
(* The engine with the statistics of the players, the partnership and the  *)
(* fall of wickets recorded, over one over.  A callback given by the       *)
(* caller may raise: BallAborted is a ball whose send_message call raises  *)
(* (line 1047), which leaves simulate_match in the middle of an innings.   *)
(* ResetMatchStats is reset_match_stats called once the engine is not      *)
(* running any more, before the match is simulated again.                  *)
(***************************************************************************)
BookInputs ==
    { Input(RosterTwo, RosterOne, 1, "module", c, c, c) : c \in BOOLEAN }
    \cup { Input(RosterOne, RosterNoBowler, 1, "module", TRUE, TRUE, TRUE),
           Input(RosterNoBowler, RosterOne, 1, "module", TRUE, TRUE, TRUE),
           Input(RosterTwo, RosterTwoBat, 1, "module", TRUE, TRUE, TRUE) }
BookInit == sampling = NoSampling /\ \E i \in BookInputs : Constructed(i, TRUE)
\* every outcome is drawn for the smallest pair of rosters, and the dot ball, the
\* single and the wicket for the others
ShortBallResults == { r \in BallResults : r.runs \in {0, 1} }
BookBallResults ==
    IF Len(roster[1]) + Len(roster[2]) <= 3 THEN BallResults ELSE ShortBallResults

BallAborted(r) ==
    /\ pc = "ball"
    /\ EngineRuns
    /\ SendGuard /\ send_message_func
    /\ current_batsmen # << >> /\ current_bowler # NoPlayer
    /\ \E how \in Dismissals(r) :
       LET striker == current_batsmen[1]
           stats1 == SimulatedBall(player_stats, striker, current_bowler, r, how)
       IN  /\ player_stats' =
                IF r.event = "dot" THEN BowledBall(stats1, current_bowler, r) ELSE stats1
           /\ is_out' = [is_out EXCEPT ![striker] = @ \/ r.event = "wicket"]
    /\ team' = [team EXCEPT ![batting_team].balls = over * BallsPerOver + ball]
    /\ partnership_balls' = partnership_balls + 1
    /\ innings_balls' = innings_balls + 1
    /\ event_log' = Delivered(event_log, << r.event >>)
    /\ raised' = TRUE
    /\ pc' = "raised"
    /\ UNCHANGED << current_partnership, fall_of_wickets, over_start_runs, ball_event,
                    config_vars, callback_vars, current_innings,
                    team1_score, team1_wickets, team1_overs, team1_balls,
                    team2_score, team2_wickets, team2_overs, team2_balls,
                    current_batsmen, current_bowler, target_score, batting_team, bowling_team,
                    over, ball, all_out, target_reached, target,
                    last_event, scorecards, end_calls, end_arg, sim_result, final_result,
                    handler_vars >>

\* CricketMatch.reset_match_stats, lines 259-298
ResetMatchStats ==
    /\ pc \in {"constructed", "raised", "returned"}
    /\ driver = "module"
    /\ team' = [t \in Teams |-> ZeroTeam]
    /\ is_out' = [p \in AllPlayers |-> FALSE]
    /\ player_stats' = ResetPlayerStats(player_stats)
    /\ current_innings' = 0
    /\ team1_score' = 0 /\ team1_wickets' = 0 /\ team1_overs' = 0 /\ team1_balls' = 0
    /\ team2_score' = 0 /\ team2_wickets' = 0 /\ team2_overs' = 0 /\ team2_balls' = 0
    /\ current_batsmen' = << >>
    /\ current_bowler' = NoPlayer
    /\ target_score' = None
    /\ over_start_runs' = 0
    /\ batting_team' = None
    /\ bowling_team' = None
    /\ current_partnership' = 0
    /\ partnership_balls' = 0
    /\ fall_of_wickets' = << >>
    \* the frame of the call that ended and what was observed of it are gone
    /\ over' = 0 /\ ball' = 0 /\ all_out' = FALSE /\ target_reached' = FALSE
    /\ target' = None /\ innings_balls' = 0
    /\ last_event' = "none" /\ scorecards' = FALSE /\ end_calls' = 0
    /\ end_arg' = EmptyDict /\ sim_result' = EmptyDict /\ ball_event' = EmptyDict
    /\ event_log' = << >>
    /\ raised' = FALSE
    /\ pc' = "constructed"
    /\ UNCHANGED << config_vars, callback_vars, final_result, handler_vars >>

BookNext ==
    \/ SimulateMatch
    \/ InningsBegin
    \/ OverStart
    \/ \E r \in BookBallResults : Ball(r)
    \/ \E r \in BookBallResults : BallAborted(r)
    \/ OverEnd
    \/ InningsBreak
    \/ MatchResult
    \/ ResetMatchStats
BookSpec == BookInit /\ [][BookNext]_vars

(***************************************************************************)
(* The settlement layer with its toss followed, over one over.             *)
(***************************************************************************)
TossInputs ==
    { Input(RosterTwo, RosterOne, 1, "handler", TRUE, TRUE, TRUE),
      Input(RosterOne, RosterTwo, 1, "handler", TRUE, TRUE, TRUE) }
TossInit == sampling = NoSampling /\ \E i \in TossInputs : Constructed(i, TRUE)
TossNext ==
    \/ HandlerBegin
    \/ SimulateMatch
    \/ InningsBegin
    \/ OverStart
    \/ \E r \in ShortBallResults : Ball(r)
    \/ OverEnd
    \/ InningsBreak
    \/ MatchResult
    \/ CompleteMatch
    \/ HandlerCredit1
    \/ HandlerCredit2
    \/ HandlerStats
    \/ HandlerCleanup
    \/ HandlerExcept
TossSpec == TossInit /\ [][TossNext]_vars

(***************************************************************************)
(* Team.calculate_chemistry, lines 154-225.  The floats of the code are    *)
(* counted in hundredths: 1.0 is 100, the penalties 0.20, 0.15, 0.30 and   *)
(* 0.10 are 20, 15, 30 and 10.                                             *)
(***************************************************************************)
\* faulty variant: no lower bound
Max_m(a, b) == b
Min(a, b) == IF a < b THEN a ELSE b
Max(a, b) == IF a > b THEN a ELSE b
Abs(a) == IF a < 0 THEN 0 - a ELSE a

\* lines 169-178: the players whose role, lowered and stripped, is one of the spellings
RoleCount(players, spellings) ==
    Cardinality({ i \in 1..Len(players) : Strip(Lower(players[i].role)) \in spellings })

calculate_chemistry(players) ==
    IF Len(players) < 5 THEN 50
    ELSE
    LET batsman == RoleCount(players, {"batsman", "batter"})
        bowler == RoleCount(players, {"bowler"})
        all_rounder == RoleCount(players, {"all-rounder", "all rounder", "allrounder"})
        wicket_keeper == RoleCount(players, {"wicket keeper", "wicketkeeper", "keeper"})
        c1 == 100 - (IF batsman < 3 THEN 20
                     ELSE IF batsman > 6 THEN 15 * (batsman - 6) ELSE 0)
        c2 == c1 - (IF bowler < 3 THEN 20
                    ELSE IF bowler > 6 THEN 15 * (bowler - 6) ELSE 0)
        c3 == c2 - (IF wicket_keeper < 1 THEN 30
                    ELSE IF wicket_keeper > 2 THEN 10 * (wicket_keeper - 2) ELSE 0)
        c4 == c3 - (IF all_rounder < 1 THEN 15
                    ELSE IF all_rounder > 3 THEN 10 * (all_rounder - 3) ELSE 0)
        total_players == batsman + bowler + all_rounder + wicket_keeper
        c5 == c4 - (IF total_players # 11 THEN 10 * Abs(11 - total_players) ELSE 0)
        c6 == c5 + (IF /\ 4 <= batsman /\ batsman <= 5
                       /\ 4 <= bowler /\ bowler <= 5
                       /\ 1 <= all_rounder /\ all_rounder <= 2
                       /\ wicket_keeper = 1
                       /\ total_players = 11
                    THEN 10 ELSE 0)
    IN  Max(50, Min(c6, 150))

CalculateChemistry(t) ==
    /\ chemistry' = [chemistry EXCEPT ![t] = calculate_chemistry(roster[t])]
    /\ chemistry_returned' = [chemistry_returned EXCEPT ![t] = calculate_chemistry(roster[t])]
    /\ UNCHANGED << book_vars, roster, total_overs, driver, bookkeeping, sampling, callback_vars,
                    engine_vars, loop_vars,
                    observer_vars, handler_vars, pc >>

\* the role names of the data model (src/handlers.py line 210), in this order:
\* batsman, bowler, all-rounder, wicket-keeper
valid_roles == << "Batsman", "Bowler", "All-rounder", "Wicket-keeper" >>
\* spellings of the four roles: the data model's in three letter cases, and others
\* that calculate_chemistry looks for
RoleSpellings ==
    { valid_roles,
      << "batsman", "bowler", "all-rounder", "wicket-keeper" >>,
      << "BATSMAN", "BOWLER", "ALL-ROUNDER", "WICKET-KEEPER" >>,
      << "Batter", "Bowler ", "Allrounder", "Wicketkeeper" >>,
      << "batsman", "bowler", "All rounder", "Wicket keeper" >>,
      << "Batsman", "Bowler", "All-rounder", " Keeper" >> }
DataModelSpellings ==
    { sp \in RoleSpellings : \A k \in 1..4 : Lower(sp[k]) = Lower(valid_roles[k]) }

\* a roster of nbat batsmen, nbowl bowlers, nar all-rounders and nwk wicket-keepers
RoleRoster(nbat, nbowl, nar, nwk, sp) ==
    [i \in 1..(nbat + nbowl + nar + nwk) |->
        Pl("p", IF i <= nbat THEN sp[1]
                ELSE IF i <= nbat + nbowl THEN sp[2]
                ELSE IF i <= nbat + nbowl + nar THEN sp[3] ELSE sp[4],
           0, 50, 50)]

ChemInit ==
    /\ sampling = NoSampling
    /\ \E nbat \in 0..MaxSpecialists, nbowl \in 0..MaxSpecialists,
       nar \in 0..MaxAllRounders, nwk \in 0..MaxKeepers, sp \in RoleSpellings :
        Constructed(Input(RoleRoster(nbat, nbowl, nar, nwk, sp), RosterEmpty, 1, "module",
                          FALSE, FALSE, FALSE), FALSE)
ChemNext == \E t \in Teams : CalculateChemistry(t)
ChemSpec == ChemInit /\ [][ChemNext]_vars

(***************************************************************************)
(* The engine over 1..MaxOvers overs with bowling teams of one, two and    *)
(* three players, for the rotation of the bowlers.  The outcomes drawn are *)
(* the dot ball, the single and the wicket.                                *)
(***************************************************************************)
OversInputs ==
    { Input(RosterTwo, b, n, "module", TRUE, TRUE, TRUE) :
        b \in { RosterOne, RosterTwoBat, RosterNoBowler }, n \in 1..MaxOvers }
OversInit == sampling = NoSampling /\ \E i \in OversInputs : Constructed(i, FALSE)
OversNext ==
    \/ SimulateMatch
    \/ InningsBegin
    \/ OverStart
    \/ \E r \in ShortBallResults : Ball(r)
    \/ OverEnd
    \/ InningsBreak
    \/ MatchResult
OversSpec == OversInit /\ [][OversNext]_vars

(***************************************************************************)
(* simulate_ball, lines 415-541: the probabilities of the five outcomes    *)
(* and the draw.  Before the renormalisation the probabilities are counted *)
(* in thousandths and the skill difference is a whole number, so that the  *)
(* decimal constants of the code are exact.  The renormalisation divides   *)
(* floats: a float of the model has a significand of Precision bits, is    *)
(* rounded to nearest, ties to even, and is counted in units of            *)
(* 2^-(Precision + ExponentRange).                                         *)
(***************************************************************************)
Precision == 10
\* every quotient of line 504-508 is above 0.01 / 1.60 > 2^-8
ExponentRange == 8
Scale == Precision + ExponentRange
RECURSIVE Pow2(_)
Pow2(k) == IF k <= 0 THEN 1 ELSE 2 * Pow2(k - 1)
One == Pow2(Scale)
RECURSIVE Log2From(_, _, _)
Log2From(a, b, e) == IF Pow2(e + 1) * b <= a THEN Log2From(a, b, e + 1) ELSE e
\* a / b rounded to a whole number, ties to even
RoundDiv(a, b) ==
    LET q == a \div b
        r == a % b
    IN  IF 2 * r < b THEN q
        ELSE IF 2 * r > b THEN q + 1
        ELSE IF q % 2 = 0 THEN q ELSE q + 1
\* the float nearest to a / b units
Float(a, b) ==
    LET e == Log2From(a, b, 0)
        ulp == IF e >= Precision THEN Pow2(e - Precision + 1) ELSE 1
    IN  ulp * RoundDiv(a, b * ulp)
\* x / y for thousandths x and y, and x + y for floats x and y
FDiv(x, y) == Float(x * One, y)
FAdd(x, y) == Float(x + y, 1)

\* faulty variant: no clamp
Clamp_m(lo, hi, x) == x
\* max(lo, min(hi, x)), lines 496-500
Clamp(lo, hi, x) == Max(lo, Min(hi, x))

\* lines 431-438
BaseProbabilities(skill_diff) ==
    [dot |-> 400 - (skill_diff * 3),
     runs_1 |-> 250, runs_2 |-> 120, runs_3 |-> 30,
     runs_1_3 |-> 250 + 120 + 30,
     boundary_4 |-> 100 + (skill_diff * 2),
     boundary_6 |-> 50 + (skill_diff * 2),
     wicket |-> 50 - skill_diff]
\* runs_1_3_prob = runs_1_prob + runs_2_prob + runs_3_prob, lines 454 and 462
Recalculated(p) == [p EXCEPT !.runs_1_3 = p.runs_1 + p.runs_2 + p.runs_3]
\* lines 441-462
PhaseAdjusted(p, match_phase) ==
    IF match_phase = "powerplay"
    THEN [p EXCEPT !.dot = @ - 50, !.boundary_4 = @ + 80, !.boundary_6 = @ + 20,
                   !.wicket = @ + 10]
    ELSE IF match_phase = "middle_overs"
    THEN Recalculated([p EXCEPT !.runs_1 = @ + 50, !.runs_2 = @ + 20,
                                !.boundary_4 = @ - 30, !.boundary_6 = @ - 20])
    ELSE IF match_phase = "death_overs"
    THEN Recalculated([p EXCEPT !.dot = @ - 100, !.runs_1 = @ - 50, !.boundary_4 = @ + 50,
                                !.boundary_6 = @ + 80, !.wicket = @ + 20])
    ELSE p
\* lines 465-480
BattingFocusAdjusted(p, batting_focus) ==
    IF batting_focus = "attacking"
    THEN [p EXCEPT !.dot = @ - 100, !.runs_1_3 = @ - 50, !.boundary_4 = @ + 80,
                   !.boundary_6 = @ + 70, !.wicket = @ + 30]
    ELSE IF batting_focus = "defensive"
    THEN [p EXCEPT !.dot = @ + 100, !.runs_1_3 = @ + 50, !.boundary_4 = @ - 50,
                   !.boundary_6 = @ - 50, !.wicket = @ - 20]
    ELSE p
\* lines 482-493
BowlingFocusAdjusted(p, bowling_focus) ==
    IF bowling_focus = "wicket-taking"
    THEN [p EXCEPT !.wicket = @ + 50, !.dot = @ - 30, !.boundary_4 = @ + 20,
                   !.boundary_6 = @ + 10]
    ELSE IF bowling_focus = "economy"
    THEN [p EXCEPT !.wicket = @ - 20, !.dot = @ + 80, !.boundary_4 = @ - 40,
                   !.boundary_6 = @ - 20]
    ELSE p
\* lines 496-500
Clamped(p) ==
    [p EXCEPT !.dot = Clamp(200, 600, @), !.runs_1_3 = Clamp(250, 500, @),
              !.boundary_4 = Clamp(50, 200, @), !.boundary_6 = Clamp(10, 150, @),
              !.wicket = Clamp(20, 150, @)]
\* line 503
TotalProb(p) == p.dot + p.runs_1_3 + p.boundary_4 + p.boundary_6 + p.wicket
\* lines 504-508: the five floats
Normalised(p) ==
    [dot |-> FDiv(p.dot, TotalProb(p)), runs_1_3 |-> FDiv(p.runs_1_3, TotalProb(p)),
     boundary_4 |-> FDiv(p.boundary_4, TotalProb(p)),
     boundary_6 |-> FDiv(p.boundary_6, TotalProb(p)),
     wicket |-> FDiv(p.wicket, TotalProb(p))]
\* lines 511-514
Cumulative(n) ==
    LET cum_prob_dot == n.dot
        cum_prob_1_3 == FAdd(cum_prob_dot, n.runs_1_3)
        cum_prob_4 == FAdd(cum_prob_1_3, n.boundary_4)
        cum_prob_6 == FAdd(cum_prob_4, n.boundary_6)
    IN  [dot |-> cum_prob_dot, runs_1_3 |-> cum_prob_1_3, boundary_4 |-> cum_prob_4,
         boundary_6 |-> cum_prob_6]
\* lines 523-572: the branch taken for a draw
Outcome(outcome_roll, cum) ==
    IF outcome_roll < cum.dot THEN "dot"
    ELSE IF outcome_roll < cum.runs_1_3 THEN "runs"
    ELSE IF outcome_roll < cum.boundary_4 THEN "boundary_4"
    ELSE IF outcome_roll < cum.boundary_6 THEN "boundary_6"
    ELSE "wicket"
\* faulty variant: the weights are the base probabilities
RunWeights_m(p) == << 250, 120, 30 >>
\* lines 534-540: random.choices([1, 2, 3], weights) for a draw below the sum of the
\* weights; the three weights are the three probabilities over their sum
RunWeights(p) == << p.runs_1, p.runs_2, p.runs_3 >>
ChosenRuns(weights, pick) ==
    IF pick < weights[1] THEN 1
    ELSE IF pick < weights[1] + weights[2] THEN 2 ELSE 3

\* get_match_phase, lines 344-359
get_match_phase(over_number) ==
    IF over_number < 6 THEN "powerplay"
    ELSE IF over_number >= total_overs - 4 THEN "death_overs"
    ELSE "middle_overs"

\* the inputs of a draw: the format, the over, the skill difference and the focus
\* of the two teams
FormatOvers == {5, 20}
SampledOvers == {0, 5, 6, 15, 16, 19}
SkillDiffs == { 5 * k : k \in (0 - 40)..45 }
BattingFocus == {"balanced", "attacking", "defensive"}
BowlingFocus == {"balanced", "wicket-taking", "economy"}
NoProbabilities == [dot |-> 0, runs_1_3 |-> 0, boundary_4 |-> 0, boundary_6 |-> 0, wicket |-> 0]
ProbInit ==
    /\ \E n \in FormatOvers :
          Constructed(Input(RosterEmpty, RosterEmpty, n, "module", FALSE, FALSE, FALSE), FALSE)
    /\ \E d \in SkillDiffs, o \in SampledOvers, bf \in BattingFocus, wf \in BowlingFocus :
          /\ o < total_overs
          /\ sampling = [stage |-> "inputs", skill_diff |-> d, current_over |-> o,
                         batting_focus |-> bf, bowling_focus |-> wf,
                         clamped |-> NoProbabilities, probs |-> NoProbabilities,
                         cum |-> NoProbabilities, weights |-> << 0, 0, 0 >>,
                         outcome_roll |-> 0, outcome |-> "none", runs |-> 0]
non_sampling_vars == << roster, total_overs, driver, chemistry, chemistry_returned, bookkeeping,
                        callback_vars, engine_vars, loop_vars, observer_vars, handler_vars,
                        book_vars, pc >>
\* lines 431-514
OutcomeProbabilities ==
    /\ sampling.stage = "inputs"
    /\ LET adjusted ==
               BowlingFocusAdjusted(
                   BattingFocusAdjusted(
                       PhaseAdjusted(BaseProbabilities(sampling.skill_diff),
                                     get_match_phase(sampling.current_over)),
                       sampling.batting_focus),
                   sampling.bowling_focus)
           clamped == Clamped(adjusted)
           normalised == Normalised(clamped)
       IN  sampling' = [sampling EXCEPT
                           !.stage = "computed",
                           !.clamped = [f \in DOMAIN NoProbabilities |-> clamped[f]],
                           !.probs = normalised,
                           !.cum = Cumulative(normalised) @@ [wicket |-> 0],
                           !.weights = RunWeights(adjusted)]
    /\ UNCHANGED non_sampling_vars
\* the draws at the two ends of [0, 1) and on either side of each threshold
Rolls ==
    {0, One - 1}
    \cup { sampling.cum[f] - 1 : f \in {"dot", "runs_1_3", "boundary_4", "boundary_6"} }
    \cup { sampling.cum[f] : f \in {"dot", "runs_1_3", "boundary_4", "boundary_6"} }
\* the draws of random.choices on either side of each step of the weights
Picks ==
    LET w == sampling.weights
    IN  {0, w[1] - 1, w[1], w[1] + w[2] - 1, w[1] + w[2], w[1] + w[2] + w[3] - 1}
\* lines 517-572
DrawOutcome ==
    /\ sampling.stage = "computed"
    /\ \E outcome_roll \in Rolls, pick \in Picks :
          /\ outcome_roll >= 0 /\ outcome_roll < One
          /\ LET outcome == Outcome(outcome_roll, sampling.cum)
             IN  sampling' = [sampling EXCEPT
                                 !.stage = "drawn",
                                 !.outcome_roll = outcome_roll,
                                 !.outcome = outcome,
                                 !.runs = IF outcome = "runs"
                                          THEN ChosenRuns(sampling.weights, pick)
                                          ELSE IF outcome = "boundary_4" THEN 4
                                          ELSE IF outcome = "boundary_6" THEN 6 ELSE 0]
    /\ UNCHANGED non_sampling_vars
ProbNext == OutcomeProbabilities \/ DrawOutcome
ProbSpec == ProbInit /\ [][ProbNext]_vars

(***************************************************************************)
(* The properties.                                                         *)
(***************************************************************************)
\* a call of simulate_ball that bowls a ball of the current innings
BallBowled == innings_balls' = innings_balls + 1
\* the ball took a wicket
WicketFell == BallBowled /\ team'[batting_team].wickets = team[batting_team].wickets + 1
\* after the ball, no player of the batting team is neither out nor at the crease
NoneAvailable ==
    \A p \in Players(batting_team) :
        is_out'[p] \/ \E i \in 1..Len(current_batsmen) : current_batsmen[i] = p

\* C1: in every reachable state the wickets of a team are between 0 and 10 and its
\* overs counter is at most total_overs; an innings has at most 6 x total_overs
\* balls, and no ball is bowled once the batting team has lost 10 wickets.
C1_InningsBounds ==
    /\ [](\A t \in Teams : /\ team[t].wickets >= 0 /\ team[t].wickets <= 10
                           /\ team[t].overs <= total_overs)
    /\ [](innings_balls <= 6 * total_overs)
    /\ [][BallBowled => team[batting_team].wickets < 10]_vars
\* an innings that the 10th wicket ended
C1_Witness ==
    /\ pc = "innings_end"
    /\ all_out
    /\ team[batting_team].wickets = 10
    /\ innings_balls < 6 * total_overs

\* C2: every ball of the 2nd innings is bowled while the score is below the target;
\* the ball that brings the score to the target or above marks target_reached, sends
\* the target_reached event and leaves the ball loop, and no ball follows.
C2_TargetEndsInnings ==
    /\ [][(current_innings = 2 /\ BallBowled)
            => team[batting_team].score < target_score]_vars
    /\ [][(current_innings = 2 /\ BallBowled /\ team'[batting_team].score >= target_score)
            => /\ target_reached'
               /\ pc' = "over_end"
               /\ send_message_func => last_event' = "target_reached"]_vars
    /\ [][target_reached => ~BallBowled]_vars
\* a chase that succeeded before the last ball of an over
C2_Witness ==
    /\ target_reached
    /\ current_innings = 2
    /\ team[2].score >= target_score
    /\ ball < BallsPerOver - 1
    /\ last_event = "target_reached"

\* C3: a wicket after which no player of the batting team is neither out nor at the
\* crease ends the innings at that ball: all_out is set, the all_out event is sent,
\* the ball loop is left, and no ball follows in that innings.
C3_AllOutEndsInnings ==
    /\ [][(WicketFell /\ NoneAvailable)
            => /\ all_out'
               /\ pc' = "over_end"
               /\ send_message_func => last_event' = "all_out"]_vars
    /\ [][all_out => ~BallBowled]_vars
\* a roster of fewer than 11 players that ran out of batsmen in the middle of an over
C3_Witness ==
    /\ all_out
    /\ Len(roster[batting_team]) < 11
    /\ team[batting_team].wickets < 10
    /\ ball < BallsPerOver - 1
    /\ last_event = "all_out"

\* C4: the result of complete_match has one of the four result types and it agrees
\* with the final scores: team 1 ahead is team1_win by team1_score - team2_score
\* runs, team 2 ahead is team2_win_wickets by 10 - team2_wickets wickets, level
\* scores are a tie.
C4_ResultAgreesWithScores ==
    DOMAIN final_result # {} =>
        LET s1 == team[1].score
            s2 == team[2].score
        IN  /\ final_result.result_type
                 \in {"team1_win", "team2_win_wickets", "team2_win_runs", "tie"}
            /\ final_result.team1_score = s1
            /\ final_result.team2_score = s2
            /\ s1 > s2 => /\ final_result.result_type = "team1_win"
                          /\ final_result.margin_type = "runs"
                          /\ final_result.margin = s1 - s2
            /\ s2 > s1 => /\ final_result.result_type = "team2_win_wickets"
                          /\ final_result.margin_type = "wickets"
                          /\ final_result.margin = 10 - team[2].wickets
            /\ s1 = s2 => final_result.result_type = "tie"
\* a chase that succeeded after a wicket had fallen
C4_Witness ==
    /\ DOMAIN final_result # {}
    /\ final_result.result_type = "team2_win_wickets"
    /\ final_result.margin = 9

\* C10: before the 2nd innings target_score is unset; from the start of the 2nd
\* innings it is the first-innings score of team 1 plus 1, at least 1, and it does
\* not change.
C10_TargetScore ==
    /\ [](current_innings < 2 => target_score = None)
    /\ [](current_innings = 2 => /\ target_score = team[1].score + 1
                                 /\ target_score = team1_score + 1
                                 /\ target_score >= 1)
    /\ [][current_innings = 2 => target_score' = target_score]_vars
\* a match that finished after a first innings with runs
C10_Witness ==
    /\ current_innings = 2
    /\ pc = "returned"
    /\ target_score > 1
    /\ innings_balls > 0

\* C5: over one match driven by the settlement layer, match_end is called at most
\* once, only once the 2nd innings is over, and when complete_match has returned it
\* has been called exactly once, with the result record complete_match returned.
C5_MatchEndOnce ==
    driver = "handler" =>
        /\ end_calls <= 1
        /\ end_calls = 1 => (current_innings = 2 /\ pc \in {"returned", "completed"})
        /\ pc = "completed" => (end_calls = 1 /\ end_arg = final_result)

\* C6: the dictionary simulate_match returns, and every dictionary handed to
\* match_end, has the keys result_type, team1_reward and team2_reward, whether or
\* not match_end is set.
C6_ResultHasTagAndRewards ==
    LET required == {"result_type", "team1_reward", "team2_reward"}
    IN  /\ pc \in {"returned", "completed"} => required \subseteq DOMAIN sim_result
        /\ end_calls > 0 => required \subseteq DOMAIN end_arg

\* C7: once the except block of the settlement layer has run, the net coin change
\* of both participants is zero and the match is no longer in active_matches.
C7_FailureRefundsStake ==
    hpc = "failed" => /\ \A u \in DOMAIN coins : coins[u] = 0
                      /\ ~active_matches

\* the number of players of the roster whose role is the data model's role k in
\* some letter case
DataModelRoleCount(players, k) ==
    Cardinality({ i \in 1..Len(players) : Lower(players[i].role) = Lower(valid_roles[k]) })
\* 11 players: 4 batsmen, 4 bowlers, 2 all-rounders and 1 wicket-keeper, all under
\* the data model's role names
BalancedEleven(players) ==
    /\ Len(players) = 11
    /\ DataModelRoleCount(players, 1) = 4
    /\ DataModelRoleCount(players, 2) = 4
    /\ DataModelRoleCount(players, 3) = 2
    /\ DataModelRoleCount(players, 4) = 1

\* C8: for 11 players with the data model's role names in any letter case, 4
\* batsmen, 4 bowlers, 2 all-rounders and 1 wicket-keeper, calculate_chemistry
\* returns at least 1.0 (100 hundredths).
C8_BalancedChemistry ==
    \A t \in Teams :
        (chemistry_returned[t] # None /\ BalancedEleven(roster[t]))
            => chemistry_returned[t] >= 100

\* C9: simulate_match never raises, which includes calling a callback that is None,
\* and it returns a result, for every pair of rosters and every subset of the
\* callbacks.
C9_AlwaysReturns ==
    /\ [](~raised /\ pc # "raised")
    /\ <>(pc = "returned" /\ DOMAIN sim_result # {})
\* a match of an empty team, without callbacks, that returned
C9_Witness ==
    /\ pc = "returned"
    /\ roster[1] = RosterEmpty
    /\ roster[2] = RosterOne
    /\ ~send_message_func /\ ~update_scorecard_func /\ ~match_end_func
    /\ DOMAIN sim_result # {}

(***************************************************************************)
(* The claims about the records the engine keeps                           *)
(***************************************************************************)
\* the players at the crease and the bowler when a ball is about to be bowled
AtCrease(p) == \E i \in 1..Len(current_batsmen) : current_batsmen[i] = p
\* a step inside one call of simulate_match
SameCall == pc # "constructed" /\ pc' # "constructed"

\* C11: whenever a ball is about to be bowled, current_batsmen holds exactly two
\* distinct players of the batting team, neither of them out (so the striker is not
\* out), and the bowler is one player of the bowling team; a player who is out is
\* not brought back (is_out stays set during the call), so he faces no later ball.
C11_BallParticipants ==
    /\ [](pc = "ball" =>
            /\ Len(current_batsmen) = 2
            /\ current_batsmen[1] # current_batsmen[2]
            /\ \A i \in 1..2 : current_batsmen[i] \in Players(batting_team)
            /\ \A i \in 1..2 : ~is_out[current_batsmen[i]]
            /\ current_bowler \in Players(bowling_team))
    /\ [][SameCall => \A p \in AllPlayers : is_out[p] => is_out'[p]]_vars
    /\ [][BallBowled => ~is_out[current_batsmen[1]] /\ current_bowler # NoPlayer]_vars
\* a ball is about to be bowled after two batsmen were replaced
C11_Witness ==
    /\ pc = "ball"
    /\ team[batting_team].wickets >= 2
    /\ \E p \in Players(batting_team) : is_out[p] /\ ~AtCrease(p)

\* the state reset_match_stats leaves, lines 259-298 and 64-79
FreshState ==
    /\ \A t \in Teams : team[t] = [score |-> 0, wickets |-> 0, overs |-> 0, balls |-> 0]
    /\ \A p \in AllPlayers :
        /\ ~is_out[p]
        /\ \A f \in {"runs", "balls_faced", "wickets", "balls_bowled", "runs_conceded",
                      "fours", "sixes", "overs_bowled", "maidens"} : player_stats[p][f] = 0
        /\ \A f \in {"out_method", "bowler_who_dismissed", "fielder_who_dismissed"} :
              player_stats[p][f] = NoName
    /\ current_innings = 0
    /\ team1_score = 0 /\ team1_wickets = 0 /\ team1_overs = 0 /\ team1_balls = 0
    /\ team2_score = 0 /\ team2_wickets = 0 /\ team2_overs = 0 /\ team2_balls = 0
    /\ current_batsmen = << >> /\ current_bowler = NoPlayer
    /\ target_score = None /\ over_start_runs = 0
    /\ batting_team = None /\ bowling_team = None
    /\ current_partnership = 0 /\ partnership_balls = 0 /\ fall_of_wickets = << >>
\* the state in which simulate_match begins the first innings of a new match
FreshStart ==
    /\ \A t \in Teams : team[t] = [score |-> 0, wickets |-> 0, overs |-> 0, balls |-> 0]
    /\ \A p \in AllPlayers : ~is_out[p] /\ player_stats[p] = ZeroPlayer
    /\ current_innings = 1 /\ batting_team = 1 /\ bowling_team = 2
    /\ team1_score = 0 /\ team1_wickets = 0 /\ team1_overs = 0 /\ team1_balls = 0
    /\ team2_score = 0 /\ team2_wickets = 0 /\ team2_overs = 0 /\ team2_balls = 0
    /\ current_batsmen = SetupBatsmen(1) /\ current_bowler = SetupBowler(2)
    /\ target_score = None /\ over_start_runs = 0
    /\ current_partnership = 0 /\ partnership_balls = 0 /\ fall_of_wickets = << >>

\* C12: reset_match_stats, from whatever state a finished or failed call left, gives
\* the zeroed state of a new match (so a second reset changes nothing), and
\* simulate_match called again after a failure starts its first innings in the same
\* state as on a new match.
C12_ResetRestoresFreshState ==
    /\ [](pc = "constructed" => FreshState)
    /\ [][pc' = "constructed" => FreshState']_vars
    /\ [][pc = "raised" /\ pc' = "innings" => FreshStart']_vars
\* simulate_match has begun again on a match whose earlier call was aborted in the
\* middle of an over, after at least three balls
C12_Witness ==
    /\ pc = "innings"
    /\ FreshStart
    /\ innings_balls >= 3
    /\ ball >= 2

\* complete_match has returned its dictionary
Completed == final_result # EmptyDict

\* C13: when the two scores are equal, the dictionary complete_match returns has
\* result_type "tie", winner "Tie", no winner_id and no winner_owner_id, margin 0,
\* and both rewards within 700..1000.
C13_TieResult ==
    Completed /\ final_result.team1_score = final_result.team2_score =>
        /\ final_result.result_type = "tie"
        /\ final_result.winner = "Tie"
        /\ final_result.winner_id = None
        /\ final_result.winner_owner_id = None
        /\ final_result.margin = 0
        /\ final_result.team1_reward \in 700..1000
        /\ final_result.team2_reward \in 700..1000
\* a tie on a score above 0
C13_Witness ==
    /\ Completed
    /\ final_result.team1_score = final_result.team2_score
    /\ final_result.team1_score > 0

\* C14: in a decided match the winner's reward (1000..1500) is strictly greater than
\* the loser's (500..600); the reward of a tie is not below the greatest reward of a
\* loser (600) and not above the least reward of a winner (1000).
C14_RewardOrder ==
    Completed =>
        LET s1 == final_result.team1_score
            s2 == final_result.team2_score
            winner_reward == IF s1 > s2 THEN final_result.team1_reward
                             ELSE final_result.team2_reward
            loser_reward == IF s1 > s2 THEN final_result.team2_reward
                            ELSE final_result.team1_reward
        IN  IF s1 # s2
            THEN /\ winner_reward \in 1000..1500
                 /\ loser_reward \in 500..600
                 /\ winner_reward > loser_reward
            ELSE /\ winner_reward >= 600 /\ winner_reward <= 1000
                 /\ loser_reward >= 600 /\ loser_reward <= 1000
\* the team batting second has won with the least reward of a winner against the
\* greatest reward of a loser
C14_Witness ==
    /\ Completed
    /\ final_result.team2_score > final_result.team1_score
    /\ final_result.team2_reward = 1000
    /\ final_result.team1_reward = 600

\* setup_innings has just run, for the 1st or the 2nd innings
AfterSetup == pc = "innings"
\* p is the best bowler of team t: of a bowling role, with the greatest bowling_ovr,
\* and the earliest of the roster among equals
FirstBowler(t, p) ==
    /\ p \in Players(t)
    /\ IsBowlingRole(Attr(p))
    /\ \A q \in Players(t) :
          IsBowlingRole(Attr(q)) =>
              \/ Attr(q).bowling_ovr < Attr(p).bowling_ovr
              \/ Attr(q).bowling_ovr = Attr(p).bowling_ovr /\ q[2] >= p[2]
HasBowlingRole(t) == \E p \in Players(t) : IsBowlingRole(Attr(p))
TeamsAndBatsmenSet ==
    /\ batting_team = current_innings
    /\ bowling_team = 3 - current_innings
    /\ LET batting_order == get_batting_order(batting_team)
       IN  current_batsmen = SubSeq(batting_order, 1, Min(2, Len(batting_order)))

\* C15 as stated: after setup_innings the teams are the given ones, the batsmen the
\* first two of the batting order, the bowler the first of the bowling order or,
\* without a Bowler or All-rounder, some player of the bowling team, and the bowler
\* is set whenever the bowling team has a player.
C15_BowlerSeeded ==
    AfterSetup =>
        /\ TeamsAndBatsmenSet
        /\ IF HasBowlingRole(bowling_team)
           THEN FirstBowler(bowling_team, current_bowler)
           ELSE Players(bowling_team) # {} => current_bowler \in Players(bowling_team)
\* C15, amended: after setup_innings the teams are the given ones, the batsmen the
\* first two of the batting order (all of it if shorter), the bowler the first of
\* the bowling order, and unset when no player has a bowling role; in the over loop
\* of _simulate_innings the bowler is a player of the bowling team, the first of its
\* roster when setup_innings left the bowler unset.
C15_SetupInnings ==
    /\ [](AfterSetup =>
            /\ TeamsAndBatsmenSet
            /\ IF HasBowlingRole(bowling_team)
               THEN FirstBowler(bowling_team, current_bowler)
               ELSE current_bowler = NoPlayer)
    /\ [](pc \in {"over_start", "ball", "over_end"} =>
            current_bowler \in Players(bowling_team))
    /\ [][AfterSetup /\ current_bowler = NoPlayer /\ pc' = "over_start" =>
            current_bowler' = << bowling_team, 1 >>]_vars
\* the over loop of the 2nd innings begins with the first player of a bowling team
\* without a bowling role, after setup_innings left the bowler unset
C15_Witness ==
    /\ pc = "over_start" /\ over = 0
    /\ current_innings = 2
    /\ ~HasBowlingRole(bowling_team)
    /\ current_bowler = << bowling_team, 1 >>
    /\ Len(current_batsmen) = 2

\* C16: the value calculate_chemistry returns lies in [0.5, 1.5] (50..150 hundredths)
\* and is the value stored in team.chemistry; for fewer than 5 players it is 0.50.
C16_ChemistryRange ==
    \A t \in Teams :
        chemistry_returned[t] # None =>
            /\ chemistry_returned[t] >= 50 /\ chemistry_returned[t] <= 150
            /\ chemistry[t] = chemistry_returned[t]
            /\ Len(roster[t]) < 5 => chemistry_returned[t] = 50
\* the chemistry of both teams is computed: a roster of 5 or more whose penalties
\* go below the range, and a roster of fewer than 5
C16_Witness ==
    /\ Len(roster[1]) >= 5 /\ Len(roster[1]) # 11
    /\ chemistry_returned[1] = 50 /\ chemistry[1] = 50
    /\ Len(roster[2]) < 5
    /\ chemistry_returned[2] = 50 /\ chemistry[2] = 50

\* the probabilities of a ball have been computed
Computed == sampling.stage \in {"computed", "drawn"}
FiveOutcomes == {"dot", "runs_1_3", "boundary_4", "boundary_6", "wicket"}
\* the float sum of the five renormalised probabilities, added from left to right
ProbabilitySum == FAdd(sampling.cum.boundary_6, sampling.probs.wicket)
\* the draws for which each outcome is chosen: from the threshold before it up to
\* its own threshold, the wicket up to 1
DrawInterval(outcome) ==
    LET c == sampling.cum
    IN  CASE outcome = "dot" -> << 0, c.dot >>
          [] outcome = "runs" -> << c.dot, c.runs_1_3 >>
          [] outcome = "boundary_4" -> << c.runs_1_3, c.boundary_4 >>
          [] outcome = "boundary_6" -> << c.boundary_4, c.boundary_6 >>
          [] outcome = "wicket" -> << c.boundary_6, One >>
PositiveProbabilities ==
    /\ TotalProb(sampling.clamped) > 0
    /\ \A f \in FiveOutcomes : sampling.probs[f] > 0
\* each of the five outcomes has draws of its own, and the outcome of a draw is the
\* one whose interval holds it
OneOutcomePerDraw ==
    /\ \A o \in {"dot", "runs", "boundary_4", "boundary_6", "wicket"} :
          DrawInterval(o)[1] < DrawInterval(o)[2]
    /\ sampling.stage = "drawn" =>
          /\ DrawInterval(sampling.outcome)[1] <= sampling.outcome_roll
          /\ sampling.outcome_roll < DrawInterval(sampling.outcome)[2]

\* C17 as stated: the five clamped probabilities have a positive total, and after
\* the renormalisation each is positive and their sum is exactly 1, and every draw
\* in [0, 1) has one outcome.
C17_SumExactlyOne ==
    Computed =>
        /\ PositiveProbabilities
        /\ ProbabilitySum = One
        /\ OneOutcomePerDraw
\* C17, amended: the five clamped probabilities have a positive total, and after the
\* renormalisation each is positive and their float sum differs from 1 by rounding
\* only (at most 8 units in the last place); the thresholds increase strictly and
\* stay below 1, so that every draw in [0, 1) has one outcome, the wicket taking
\* what is left above the last threshold.
C17_SumNearOne ==
    Computed =>
        /\ PositiveProbabilities
        /\ Abs(ProbabilitySum - One) * Pow2(Precision) <= 8 * One
        /\ OneOutcomePerDraw
\* the sum of the five floats is not 1, and the draw just below 1 is a wicket
C17_Witness ==
    /\ sampling.stage = "drawn"
    /\ ProbabilitySum # One
    /\ sampling.outcome_roll = One - 1
    /\ sampling.outcome = "wicket"

\* a ball is bowled and its event is delivered to send_message
BallEventSent ==
    /\ BallBowled
    /\ pc' # "raised"
    /\ send_message_func
\* C18: the event of a ball carries the score and the wickets after that ball, and
\* in the 2nd innings the target, needed = target - that score, and balls_left =
\* the balls that remain after that ball.
C18_EventCarriesRunningScore ==
    [][BallEventSent =>
        /\ ball_event'.overs = << over, ball >>
        /\ ball_event'.score = << team'[batting_team].score, team'[batting_team].wickets >>
        /\ current_innings = 2 =>
            /\ "target" \in DOMAIN ball_event'
            /\ ball_event'.target = target
            /\ ball_event'.needed = target - team'[batting_team].score
            /\ ball_event'.balls_left =
                  (total_overs * BallsPerOver) - (team'[batting_team].balls + 1)]_vars

\* the weights a : b : c of 1, 2 and 3 runs
WeightsAs(a, b, c) ==
    /\ sampling.weights[1] * b = sampling.weights[2] * a
    /\ sampling.weights[2] * c = sampling.weights[3] * b
SampledPhase ==
    IF sampling.current_over < 6 THEN "powerplay"
    ELSE IF sampling.current_over >= total_overs - 4 THEN "death_overs" ELSE "middle_overs"
\* C19 as stated: the runs of a "runs 1-3" outcome are drawn with weights in the
\* proportion of the base probabilities 0.25 : 0.12 : 0.03, in every phase and under
\* every focus.
C19_BaseRunWeights ==
    Computed => WeightsAs(25, 12, 3)
\* C19, amended: the runs of a "runs 1-3" outcome are 1, 2 or 3, drawn with weights in
\* the proportion of the three probabilities after the phase adjustment:
\* 0.25 : 0.12 : 0.03 in the powerplay, 0.30 : 0.14 : 0.03 in the middle overs and
\* 0.20 : 0.12 : 0.03 in the death overs, under every focus.
C19_PhaseRunWeights ==
    /\ Computed =>
        CASE SampledPhase = "powerplay" -> WeightsAs(25, 12, 3)
          [] SampledPhase = "middle_overs" -> WeightsAs(30, 14, 3)
          [] SampledPhase = "death_overs" -> WeightsAs(20, 12, 3)
    /\ sampling.stage = "drawn" =>
        (sampling.outcome = "runs" <=> sampling.runs \in {1, 2, 3})
\* three runs are drawn in the death overs by an attacking side
C19_Witness ==
    /\ sampling.stage = "drawn"
    /\ sampling.outcome = "runs" /\ sampling.runs = 3
    /\ SampledPhase = "death_overs"
    /\ sampling.batting_focus = "attacking"

\* the entry the wicket of this step appended
NewEntry == fall_of_wickets'[Len(fall_of_wickets')]
\* the wicket of this step is not the first of its innings
EarlierWicket == team[batting_team].wickets >= 1
\* the entry of the wicket before, of the same innings
EarlierEntry == fall_of_wickets[Len(fall_of_wickets)]
BallNumber(overs) == overs[1] * BallsPerOver + overs[2]
\* the runs and the balls between the wicket before (or the start of the innings)
\* and the wicket of this step
RunsSinceWicket ==
    team'[batting_team].score - (IF EarlierWicket THEN EarlierEntry.score ELSE 0)
BallsSinceWicket ==
    IF EarlierWicket THEN BallNumber(<< over, ball >>) - BallNumber(EarlierEntry.overs)
    ELSE BallNumber(<< over, ball >>) + 1
\* a new batsman came in for the one out
NewBatsmanIn == \E i \in 1..Len(current_batsmen') : ~AtCrease(current_batsmen'[i])

\* C20: a wicket appends exactly one fall-of-wickets entry, with the wickets of the
\* batting team after the dismissal, the score of the team at the dismissal, and the
\* partnership runs and balls since the wicket before of the same innings, or since
\* the innings began; when a new batsman comes in, both partnership counters are 0
\* after the wicket.
C20_FallOfWickets ==
    [][WicketFell =>
        /\ Len(fall_of_wickets') = Len(fall_of_wickets) + 1
        /\ SubSeq(fall_of_wickets', 1, Len(fall_of_wickets)) = fall_of_wickets
        /\ NewEntry.wicket = team'[batting_team].wickets
        /\ NewEntry.score = team'[batting_team].score
        /\ NewEntry.partnership = RunsSinceWicket
        /\ NewEntry.partnership_balls = BallsSinceWicket
        /\ NewBatsmanIn => current_partnership' = 0 /\ partnership_balls' = 0]_vars

\* an over after the first of its innings begins
LaterOverBegins == pc = "over_start" /\ pc' = "ball" /\ over >= 1
\* C21: within an innings the bowler of an over is not the bowler of the over before
\* when the bowling team has two players or more, and is the same player when the
\* bowling team has one player.
C21_BowlerRotation ==
    [][LaterOverBegins =>
        IF Cardinality(Players(bowling_team)) >= 2
        THEN current_bowler' # current_bowler /\ current_bowler' \in Players(bowling_team)
        ELSE current_bowler' = current_bowler]_vars
\* the second over of the 2nd innings is being bowled by a team of two
C21_Witness ==
    /\ pc = "ball" /\ over = 1
    /\ current_innings = 2
    /\ Cardinality(Players(bowling_team)) = 2

\* the two batsmen with their ends exchanged
Crossed == << current_batsmen[2], current_batsmen[1] >>
RunsOffBall == team'[batting_team].score - team[batting_team].score
\* C22: after a ball of 1 or 3 runs the two batsmen have exchanged ends, after a dot
\* ball, 2, 4 or 6 they have not; the batsman who replaces a dismissed one is on
\* strike in his place and the non-striker stays; at the end of an over after which
\* the innings goes on the two exchange ends, and the head of an over changes nothing.
C22_StrikeRotation ==
    /\ [][BallBowled /\ ~WicketFell =>
            IF RunsOffBall \in {1, 3} THEN current_batsmen' = Crossed
            ELSE RunsOffBall \in {0, 2, 4, 6} /\ current_batsmen' = current_batsmen]_vars
    /\ [][WicketFell =>
            IF NewBatsmanIn
            THEN /\ Len(current_batsmen') = 2
                 /\ ~AtCrease(current_batsmen'[1])
                 /\ ~is_out'[current_batsmen'[1]]
                 /\ current_batsmen'[2] = current_batsmen[2]
            ELSE current_batsmen' = current_batsmen]_vars
    /\ [][pc = "over_end" /\ pc' = "over_start" => current_batsmen' = Crossed]_vars
    /\ [][pc = "over_start" => current_batsmen' = current_batsmen]_vars
\* a new over begins after the batsmen exchanged ends, one of them having come in
\* for a dismissed batsman
C22_Witness ==
    /\ pc = "over_start" /\ over >= 1
    /\ team[batting_team].wickets >= 1
    /\ team[batting_team].score >= 3
    /\ Len(current_batsmen) = 2

(***************************************************************************)
(* The events passed to send_message                                       *)
(***************************************************************************)
EventsOf(kind) == { i \in 1..Len(event_log) : event_log[i] = kind }
BallEventCount(log) == Cardinality({ i \in 1..Len(log) : log[i] = "ball" })
\* the event log grows at its end by the sequence more
Appended(more) == event_log' = event_log \o more
NewEvents == SubSeq(event_log', Len(event_log) + 1, Len(event_log'))
CallBegins == pc \in {"constructed", "raised"} /\ pc' \in {"innings", "raised"}
\* the over_start event of the over of the ball event at index i
OverStartOf(i) ==
    LET earlier == { j \in EventsOf("over_start") : j < i }
    IN  IF earlier = {} THEN 0 ELSE CHOOSE j \in earlier : \A k \in earlier : k <= j
EndsItsInnings(i) == i = Len(event_log) \/ event_log[i + 1] = "innings_break"

\* C23: with send_message set, the events of a call of simulate_match reach the callback in
\* this order: match_start is the first and is sent once; every ball event comes after the
\* over_start of its over, in the same innings and as one of at most six; every ball bowled
\* sends exactly one ball event and no other step sends one; innings_break is sent exactly
\* once, by the step that ends the first innings and opens the second, with nothing between
\* it and the events of the second innings; an all_out or target_reached event is the last
\* event of its innings
C23_EventOrder ==
    /\ [](send_message_func /\ bookkeeping /\ event_log # << >> =>
            /\ EventsOf("match_start") = {1}
            /\ Cardinality(EventsOf("innings_break")) = (IF current_innings = 2 THEN 1 ELSE 0)
            /\ \A i \in EventsOf("ball") :
                  LET o == OverStartOf(i)
                  IN  /\ o > 0
                      /\ \A j \in o..i : event_log[j] # "innings_break"
                      /\ BallEventCount(SubSeq(event_log, o, i)) <= BallsPerOver
            /\ \A i \in EventsOf("all_out") \cup EventsOf("target_reached") : EndsItsInnings(i))
    /\ [][send_message_func /\ bookkeeping /\ pc # "constructed" /\ pc' # "constructed" /\ ~CallBegins =>
            /\ \E n \in 0..3 : Len(event_log') = Len(event_log) + n /\ Appended(NewEvents)
            /\ BallEventCount(NewEvents) = (IF BallBowled THEN 1 ELSE 0)
            /\ BallBowled => NewEvents[1] = "ball"
            /\ (\E i \in 1..Len(NewEvents) : NewEvents[i] = "innings_break")
                  <=> (current_innings = 1 /\ current_innings' = 2)
            /\ current_innings = 1 /\ current_innings' = 2 =>
                  pc = "innings_end" /\ NewEvents = << "innings_break", "innings_start" >>]_vars
\* a match played to its end: the first innings ended all out, the second on the target
C23_Witness ==
    /\ pc = "returned" /\ send_message_func /\ bookkeeping
    /\ EventsOf("all_out") # {} /\ EventsOf("target_reached") # {}
    /\ \E b \in EventsOf("innings_break") :
          /\ \E i \in EventsOf("all_out") : i < b
          /\ \E i \in EventsOf("target_reached") : i > b
    /\ BallEventCount(event_log) >= 4

\* setup_innings has returned and the innings loop has not begun
InningsSetUp == pc = "innings" /\ current_innings \in {1, 2}

\* C24: when an innings has been set up, fall_of_wickets has no entries and
\* current_partnership and partnership_balls are 0; throughout the 2nd innings
\* fall_of_wickets has as many entries as the batting team has lost wickets.
C24_InningsRecordEmpty ==
    bookkeeping =>
        /\ InningsSetUp =>
              fall_of_wickets = << >> /\ current_partnership = 0 /\ partnership_balls = 0
        /\ current_innings = 2 /\ pc \in {"innings", "over_start", "ball", "over_end", "innings_end"} =>
              Len(fall_of_wickets) = team[batting_team].wickets

\* every over of the innings was bowled in full
FullInnings == innings_balls = total_overs * BallsPerOver

\* C25: when an innings has ended, the balls counter of the batting team is the number of
\* balls delivered in the innings, and an innings of total_overs full overs is recorded
\* as total_overs overs and 0 balls.
C25_OversRecorded ==
    pc = "innings_end" /\ batting_team \in Teams =>
        /\ team[batting_team].balls = innings_balls
        /\ FullInnings =>
              /\ team[batting_team].overs = total_overs
              /\ OversText(team[batting_team].overs, team[batting_team].balls) = << total_overs, 0 >>

\* the sum of a statistic over the first n players of team t, and over the team
RECURSIVE StatSum(_, _, _)
StatSum(t, field, n) ==
    IF n = 0 THEN 0 ELSE player_stats[<< t, n >>][field] + StatSum(t, field, n - 1)
TeamStat(t, field) == StatSum(t, field, Len(roster[t]))
MarkedOut(t) == Cardinality({ p \in Players(t) : is_out[p] })
BetweenBalls == pc \in {"over_start", "ball", "over_end", "innings_end"}

\* C26: between the balls of an innings, the score of the batting team is the sum of the
\* runs of its players and the sum of the runs conceded by the players of the bowling
\* team; its wickets are the sum of the wickets of the bowling players and the number
\* of its players marked out; the balls bowled are the sum of the balls faced by its
\* players and the sum of the balls bowled by the bowling players.
C26_Totals ==
    bookkeeping /\ BetweenBalls /\ batting_team \in Teams /\ bowling_team \in Teams =>
        /\ team[batting_team].score = TeamStat(batting_team, "runs")
        /\ team[batting_team].score = TeamStat(bowling_team, "runs_conceded")
        /\ team[batting_team].wickets = TeamStat(bowling_team, "wickets")
        /\ team[batting_team].wickets = MarkedOut(batting_team)
        /\ innings_balls = TeamStat(batting_team, "balls_faced")
        /\ innings_balls = TeamStat(bowling_team, "balls_bowled")
\* the 2nd innings has ended, after runs and a wicket in both innings
C26_Witness ==
    /\ bookkeeping /\ pc = "innings_end" /\ current_innings = 2
    /\ team[batting_team].score >= 2 /\ team[batting_team].wickets >= 1
    /\ team[bowling_team].score >= 1 /\ team[bowling_team].wickets >= 1
    /\ innings_balls >= 3

\* the over that ends had all its balls bowled
SixBallsBowled == ball = BallsPerOver - 1
RunsOffOver == player_stats[current_bowler].runs_conceded - over_start_runs

\* C27: the end of an over adds 1 to the maidens of its bowler only when all six balls
\* were bowled and no run was conceded in it, and 1 to overs_bowled only when all six
\* balls were bowled; an over cut short adds to neither.
C27_OverCounters ==
    [][bookkeeping /\ pc = "over_end" /\ current_bowler \in AllPlayers =>
        /\ player_stats'[current_bowler].overs_bowled =
              player_stats[current_bowler].overs_bowled + (IF SixBallsBowled THEN 1 ELSE 0)
        /\ player_stats'[current_bowler].maidens =
              player_stats[current_bowler].maidens
                  + (IF SixBallsBowled /\ RunsOffOver = 0 THEN 1 ELSE 0)]_vars

\* the settlement layer has tossed and the engine has set up the 1st innings
FirstInningsSetUp == hpc = "sim" /\ current_innings = 1 /\ toss_winner \in TossWinners

\* C28: once the engine has set up the 1st innings of a match of the settlement layer,
\* the batting team is the team the announced toss determines to bat first.
C28_TossDecidesBatting ==
    FirstInningsSetUp => batting_team = BattingFirst(toss_winner, toss_choice)

\* the settlement layer has returned: after the clean-up of the try block, or after
\* the except block
HandlerReturned == hpc \in {"done", "failed"}
\* what a participant holds more than before the match, the stake having been deducted
\* before the match began
Received(u) == coins[u] + MatchCost
RewardOf(u) == IF u = "challenger" THEN final_result.team1_reward ELSE final_result.team2_reward
ScoreOf(u) == IF u = "challenger" THEN team1_score ELSE team2_score
Opponent(u) == IF u = "challenger" THEN "opponent" ELSE "challenger"

FirstOverBowled == pc = "ball" /\ over = 0 /\ bowling_team \in Teams

\* C29: the first over of an innings is bowled by the bowler setup_innings seeded, the
\* first of the bowling order, whenever the bowling team has such a player.
C29_SeededBowlerOpens ==
    FirstOverBowled /\ SetupBowler(bowling_team) # NoPlayer =>
        current_bowler = SetupBowler(bowling_team)
====
